---- MODULE Spec2Model ----
(***************************************************************************)
(* A model of pixidb's storage path: the Pagemaster (a checksummed, paged, *)
(* cached file), the Store that lays fixed-size rows over its pages, and   *)
(* the Table that binds a LocationIndexer to a Store.                      *)
(*                                                                         *)
(* The data file is `disk`: one record per page, a 4-byte big-endian       *)
(* CRC-32 followed by the page payload.  The cache maps a page index to a  *)
(* Page {data, dirty}.  Bytes are the naturals 0..255.                      *)
(***************************************************************************)
EXTENDS Integers, Sequences, FiniteSets, TLC

VARIABLES
    disk,       \* the .dat file: page index -> [crc, data]
    cache,      \* Pagemaster.cache: page index -> [data, dirty]
    ret,        \* what the call that returned in the last step returned, and the pages it wrote
    written,    \* row index -> the last row given to a successful SetRowAt / SetRows
    tampered,   \* pages whose on-disk payload was changed behind the Pagemaster's back
    faults,     \* how many file writes have failed so far
    indexer,    \* Table.Indexer, the in-memory indexer of the open table
    indexerName, \* Table.IndexerName
    metadata,   \* Table.Metadata: key -> value, a value being a sequence of characters
    tblFile,    \* the .tbl.json file: the text saveTableMetadata wrote, token by token
    cells,      \* GridLocation -> the values last given to a successful SetRows there
    opens,      \* how many times the table has been reopened with OpenTable
    store,      \* the open Store: Name, ColumnSet, Rows, rowSize, rowsPerPage
    storeFile,  \* the .meta.json file: the JSON object NewStore wrote
    pc,         \* per thread: where it is in the call it is executing
    loc,        \* per thread: the locals of that call
    lock,       \* Pagemaster.lock: the thread holding the write lock, or 0
    detached,   \* page buffers no longer in the cache but still referenced by a thread
    crcMemo,    \* page payload -> its CRC-32, tabulated at start and constant afterwards
    cwd,        \* the .tbl.json files of the working directory: table name -> text
    db,         \* the Database: tables, the map from table name to Table, and who uses it
    fs          \* the directory of the Database: table name -> the files of its directory

vars == <<disk, cache, ret, written, tampered, faults, indexer, indexerName, metadata, tblFile,
          cells, opens, store, storeFile, pc, loc, lock, detached, crcMemo, cwd, db, fs>>

----------------------------------------------------------------------------
(* Sizes.  The source takes the page size from the OS and keeps 64 pages   *)
(* in the cache; the model scales both down.                               *)

\* Pagemaster.pageSize = os.Getpagesize() - ChecksumSize, scaled down.
PageSize == 4

\* MaxPagesInCache, the maxCache every Store hands to NewPagemaster, scaled down.
MaxPagesInCache == 1

\* The grid of the table's indexer: Width x Height cells, one row per cell.
Width == 3

Height == 2

\* const ChecksumSize int = 4
ChecksumSize == 4

Byte == 0..255

----------------------------------------------------------------------------
(* hash/crc32.ChecksumIEEE: the table-driven CRC-32 of the reflected        *)
(* polynomial 0xEDB88320 (crc32.IEEETable).  A 32-bit word is the tuple of *)
(* its four bytes, most significant first, which is also how writePage     *)
(* stores it (binary.BigEndian.PutUint32).                                 *)

\* xor4[a + 1][b + 1] = a XOR b for the 4-bit a, b.
xor4 ==
    << <<0, 1, 2, 3, 4, 5, 6, 7, 8, 9, 10, 11, 12, 13, 14, 15>>,
       <<1, 0, 3, 2, 5, 4, 7, 6, 9, 8, 11, 10, 13, 12, 15, 14>>,
       <<2, 3, 0, 1, 6, 7, 4, 5, 10, 11, 8, 9, 14, 15, 12, 13>>,
       <<3, 2, 1, 0, 7, 6, 5, 4, 11, 10, 9, 8, 15, 14, 13, 12>>,
       <<4, 5, 6, 7, 0, 1, 2, 3, 12, 13, 14, 15, 8, 9, 10, 11>>,
       <<5, 4, 7, 6, 1, 0, 3, 2, 13, 12, 15, 14, 9, 8, 11, 10>>,
       <<6, 7, 4, 5, 2, 3, 0, 1, 14, 15, 12, 13, 10, 11, 8, 9>>,
       <<7, 6, 5, 4, 3, 2, 1, 0, 15, 14, 13, 12, 11, 10, 9, 8>>,
       <<8, 9, 10, 11, 12, 13, 14, 15, 0, 1, 2, 3, 4, 5, 6, 7>>,
       <<9, 8, 11, 10, 13, 12, 15, 14, 1, 0, 3, 2, 5, 4, 7, 6>>,
       <<10, 11, 8, 9, 14, 15, 12, 13, 2, 3, 0, 1, 6, 7, 4, 5>>,
       <<11, 10, 9, 8, 15, 14, 13, 12, 3, 2, 1, 0, 7, 6, 5, 4>>,
       <<12, 13, 14, 15, 8, 9, 10, 11, 4, 5, 6, 7, 0, 1, 2, 3>>,
       <<13, 12, 15, 14, 9, 8, 11, 10, 5, 4, 7, 6, 1, 0, 3, 2>>,
       <<14, 15, 12, 13, 10, 11, 8, 9, 6, 7, 4, 5, 2, 3, 0, 1>>,
       <<15, 14, 13, 12, 11, 10, 9, 8, 7, 6, 5, 4, 3, 2, 1, 0>> >>

Xor8(a, b) ==
    16 * xor4[(a \div 16) + 1][(b \div 16) + 1] + xor4[(a % 16) + 1][(b % 16) + 1]

Xor32(u, v) == <<Xor8(u[1], v[1]), Xor8(u[2], v[2]), Xor8(u[3], v[3]), Xor8(u[4], v[4])>>

Shr8(u) == <<0, u[1], u[2], u[3]>>

\* crcTable[n + 1] = crc32.IEEETable[n]: n shifted right eight times, the
\* polynomial xor-ed in whenever a one is shifted out.
crcTable ==
    << <<0, 0, 0, 0>>, <<119, 7, 48, 150>>, <<238, 14, 97, 44>>, <<153, 9, 81, 186>>,
       <<7, 109, 196, 25>>, <<112, 106, 244, 143>>, <<233, 99, 165, 53>>, <<158, 100, 149, 163>>,
       <<14, 219, 136, 50>>, <<121, 220, 184, 164>>, <<224, 213, 233, 30>>, <<151, 210, 217, 136>>,
       <<9, 182, 76, 43>>, <<126, 177, 124, 189>>, <<231, 184, 45, 7>>, <<144, 191, 29, 145>>,
       <<29, 183, 16, 100>>, <<106, 176, 32, 242>>, <<243, 185, 113, 72>>, <<132, 190, 65, 222>>,
       <<26, 218, 212, 125>>, <<109, 221, 228, 235>>, <<244, 212, 181, 81>>, <<131, 211, 133, 199>>,
       <<19, 108, 152, 86>>, <<100, 107, 168, 192>>, <<253, 98, 249, 122>>, <<138, 101, 201, 236>>,
       <<20, 1, 92, 79>>, <<99, 6, 108, 217>>, <<250, 15, 61, 99>>, <<141, 8, 13, 245>>,
       <<59, 110, 32, 200>>, <<76, 105, 16, 94>>, <<213, 96, 65, 228>>, <<162, 103, 113, 114>>,
       <<60, 3, 228, 209>>, <<75, 4, 212, 71>>, <<210, 13, 133, 253>>, <<165, 10, 181, 107>>,
       <<53, 181, 168, 250>>, <<66, 178, 152, 108>>, <<219, 187, 201, 214>>, <<172, 188, 249, 64>>,
       <<50, 216, 108, 227>>, <<69, 223, 92, 117>>, <<220, 214, 13, 207>>, <<171, 209, 61, 89>>,
       <<38, 217, 48, 172>>, <<81, 222, 0, 58>>, <<200, 215, 81, 128>>, <<191, 208, 97, 22>>,
       <<33, 180, 244, 181>>, <<86, 179, 196, 35>>, <<207, 186, 149, 153>>, <<184, 189, 165, 15>>,
       <<40, 2, 184, 158>>, <<95, 5, 136, 8>>, <<198, 12, 217, 178>>, <<177, 11, 233, 36>>,
       <<47, 111, 124, 135>>, <<88, 104, 76, 17>>, <<193, 97, 29, 171>>, <<182, 102, 45, 61>>,
       <<118, 220, 65, 144>>, <<1, 219, 113, 6>>, <<152, 210, 32, 188>>, <<239, 213, 16, 42>>,
       <<113, 177, 133, 137>>, <<6, 182, 181, 31>>, <<159, 191, 228, 165>>, <<232, 184, 212, 51>>,
       <<120, 7, 201, 162>>, <<15, 0, 249, 52>>, <<150, 9, 168, 142>>, <<225, 14, 152, 24>>,
       <<127, 106, 13, 187>>, <<8, 109, 61, 45>>, <<145, 100, 108, 151>>, <<230, 99, 92, 1>>,
       <<107, 107, 81, 244>>, <<28, 108, 97, 98>>, <<133, 101, 48, 216>>, <<242, 98, 0, 78>>,
       <<108, 6, 149, 237>>, <<27, 1, 165, 123>>, <<130, 8, 244, 193>>, <<245, 15, 196, 87>>,
       <<101, 176, 217, 198>>, <<18, 183, 233, 80>>, <<139, 190, 184, 234>>, <<252, 185, 136, 124>>,
       <<98, 221, 29, 223>>, <<21, 218, 45, 73>>, <<140, 211, 124, 243>>, <<251, 212, 76, 101>>,
       <<77, 178, 97, 88>>, <<58, 181, 81, 206>>, <<163, 188, 0, 116>>, <<212, 187, 48, 226>>,
       <<74, 223, 165, 65>>, <<61, 216, 149, 215>>, <<164, 209, 196, 109>>, <<211, 214, 244, 251>>,
       <<67, 105, 233, 106>>, <<52, 110, 217, 252>>, <<173, 103, 136, 70>>, <<218, 96, 184, 208>>,
       <<68, 4, 45, 115>>, <<51, 3, 29, 229>>, <<170, 10, 76, 95>>, <<221, 13, 124, 201>>,
       <<80, 5, 113, 60>>, <<39, 2, 65, 170>>, <<190, 11, 16, 16>>, <<201, 12, 32, 134>>,
       <<87, 104, 181, 37>>, <<32, 111, 133, 179>>, <<185, 102, 212, 9>>, <<206, 97, 228, 159>>,
       <<94, 222, 249, 14>>, <<41, 217, 201, 152>>, <<176, 208, 152, 34>>, <<199, 215, 168, 180>>,
       <<89, 179, 61, 23>>, <<46, 180, 13, 129>>, <<183, 189, 92, 59>>, <<192, 186, 108, 173>>,
       <<237, 184, 131, 32>>, <<154, 191, 179, 182>>, <<3, 182, 226, 12>>, <<116, 177, 210, 154>>,
       <<234, 213, 71, 57>>, <<157, 210, 119, 175>>, <<4, 219, 38, 21>>, <<115, 220, 22, 131>>,
       <<227, 99, 11, 18>>, <<148, 100, 59, 132>>, <<13, 109, 106, 62>>, <<122, 106, 90, 168>>,
       <<228, 14, 207, 11>>, <<147, 9, 255, 157>>, <<10, 0, 174, 39>>, <<125, 7, 158, 177>>,
       <<240, 15, 147, 68>>, <<135, 8, 163, 210>>, <<30, 1, 242, 104>>, <<105, 6, 194, 254>>,
       <<247, 98, 87, 93>>, <<128, 101, 103, 203>>, <<25, 108, 54, 113>>, <<110, 107, 6, 231>>,
       <<254, 212, 27, 118>>, <<137, 211, 43, 224>>, <<16, 218, 122, 90>>, <<103, 221, 74, 204>>,
       <<249, 185, 223, 111>>, <<142, 190, 239, 249>>, <<23, 183, 190, 67>>, <<96, 176, 142, 213>>,
       <<214, 214, 163, 232>>, <<161, 209, 147, 126>>, <<56, 216, 194, 196>>, <<79, 223, 242, 82>>,
       <<209, 187, 103, 241>>, <<166, 188, 87, 103>>, <<63, 181, 6, 221>>, <<72, 178, 54, 75>>,
       <<216, 13, 43, 218>>, <<175, 10, 27, 76>>, <<54, 3, 74, 246>>, <<65, 4, 122, 96>>,
       <<223, 96, 239, 195>>, <<168, 103, 223, 85>>, <<49, 110, 142, 239>>, <<70, 105, 190, 121>>,
       <<203, 97, 179, 140>>, <<188, 102, 131, 26>>, <<37, 111, 210, 160>>, <<82, 104, 226, 54>>,
       <<204, 12, 119, 149>>, <<187, 11, 71, 3>>, <<34, 2, 22, 185>>, <<85, 5, 38, 47>>,
       <<197, 186, 59, 190>>, <<178, 189, 11, 40>>, <<43, 180, 90, 146>>, <<92, 179, 106, 4>>,
       <<194, 215, 255, 167>>, <<181, 208, 207, 49>>, <<44, 217, 158, 139>>, <<91, 222, 174, 29>>,
       <<155, 100, 194, 176>>, <<236, 99, 242, 38>>, <<117, 106, 163, 156>>, <<2, 109, 147, 10>>,
       <<156, 9, 6, 169>>, <<235, 14, 54, 63>>, <<114, 7, 103, 133>>, <<5, 0, 87, 19>>,
       <<149, 191, 74, 130>>, <<226, 184, 122, 20>>, <<123, 177, 43, 174>>, <<12, 182, 27, 56>>,
       <<146, 210, 142, 155>>, <<229, 213, 190, 13>>, <<124, 220, 239, 183>>, <<11, 219, 223, 33>>,
       <<134, 211, 210, 212>>, <<241, 212, 226, 66>>, <<104, 221, 179, 248>>, <<31, 218, 131, 110>>,
       <<129, 190, 22, 205>>, <<246, 185, 38, 91>>, <<111, 176, 119, 225>>, <<24, 183, 71, 119>>,
       <<136, 8, 90, 230>>, <<255, 15, 106, 112>>, <<102, 6, 59, 202>>, <<17, 1, 11, 92>>,
       <<143, 101, 158, 255>>, <<248, 98, 174, 105>>, <<97, 107, 255, 211>>, <<22, 108, 207, 69>>,
       <<160, 10, 226, 120>>, <<215, 13, 210, 238>>, <<78, 4, 131, 84>>, <<57, 3, 179, 194>>,
       <<167, 103, 38, 97>>, <<208, 96, 22, 247>>, <<73, 105, 71, 77>>, <<62, 110, 119, 219>>,
       <<174, 209, 106, 74>>, <<217, 214, 90, 220>>, <<64, 223, 11, 102>>, <<55, 216, 59, 240>>,
       <<169, 188, 174, 83>>, <<222, 187, 158, 197>>, <<71, 178, 207, 127>>, <<48, 181, 255, 233>>,
       <<189, 189, 242, 28>>, <<202, 186, 194, 138>>, <<83, 179, 147, 48>>, <<36, 180, 163, 166>>,
       <<186, 208, 54, 5>>, <<205, 215, 6, 147>>, <<84, 222, 87, 41>>, <<35, 217, 103, 191>>,
       <<179, 102, 122, 46>>, <<196, 97, 74, 184>>, <<93, 104, 27, 2>>, <<42, 111, 43, 148>>,
       <<180, 11, 190, 55>>, <<195, 12, 142, 161>>, <<90, 5, 223, 27>>, <<45, 2, 239, 141>> >>

RECURSIVE crcUpdate(_, _, _)
crcUpdate(u, p, i) ==
    IF i > Len(p) THEN u
    ELSE crcUpdate(Xor32(crcTable[Xor8(u[4], p[i]) + 1], Shr8(u)), p, i + 1)

crc32(p) ==
    LET u == crcUpdate(<<255, 255, 255, 255>>, p, 1)
    IN  <<255 - u[1], 255 - u[2], 255 - u[3], 255 - u[4]>>

(* crc32.ChecksumIEEE.  The sums of the pages the bounded model is known   *)
(* to produce are tabulated once, in crcMemo; every other page is summed   *)
(* on demand.  crcMemo never changes and holds exactly the values of crc32.*)
ChecksumIEEE(p) == IF p \in DOMAIN crcMemo THEN crcMemo[p] ELSE crc32(p)

----------------------------------------------------------------------------
(* Columns and the Store's precomputed sizes (NewStore / OpenStore).        *)

ColumnTypeSize(t) ==
    CASE t \in {"ColumnTypeInt8", "ColumnTypeUint8"} -> 1
      [] t \in {"ColumnTypeInt16", "ColumnTypeUint16"} -> 2
      [] t \in {"ColumnTypeInt32", "ColumnTypeUint32", "ColumnTypeFloat32"} -> 4
      [] t \in {"ColumnTypeInt64", "ColumnTypeUint64", "ColumnTypeFloat64"} -> 8
      [] OTHER -> 0

\* The schema the table is created with: two one-byte columns.
ColumnSet ==
    << [Name |-> "col1", Type |-> "ColumnTypeUint8", Default |-> <<3>>],
       [Name |-> "col2", Type |-> "ColumnTypeInt8", Default |-> <<6>>] >>

ColumnSize(c) == ColumnTypeSize(c.Type)

RECURSIVE sumSizes(_, _)
sumSizes(cols, n) == IF n = 0 THEN 0 ELSE sumSizes(cols, n - 1) + ColumnSize(cols[n])

RECURSIVE concatDefaults(_, _)
concatDefaults(cols, n) ==
    IF n = 0 THEN <<>> ELSE concatDefaults(cols, n - 1) \o cols[n].Default

rowSize == sumSizes(ColumnSet, Len(ColumnSet))

DefaultRow == concatDefaults(ColumnSet, Len(ColumnSet))

\* Store.Rows: NewTable sizes the store to indexer.Size() = Width * Height.
Rows == Width * Height

rowsPerPage == PageSize \div rowSize

\* pages := (rows / rowsPerPage) + 1
pages == (Rows \div rowsPerPage) + 1

\* A page that is one row short.
RECURSIVE repeatRowShort(_, _)
repeatRowShort(row, n) == IF n <= 1 THEN <<>> ELSE repeatRowShort(row, n - 1) \o row

RECURSIVE repeatRow(_, _)
repeatRow(row, n) == IF n = 0 THEN <<>> ELSE repeatRow(row, n - 1) \o row

defaultPage == repeatRow(DefaultRow, rowsPerPage)

PageIds == 0..(pages - 1)

----------------------------------------------------------------------------
(* The Pagemaster's private helpers, as functions of the cache c and the   *)
(* file d.  Each returns the new cache / file and the error.               *)

ErrNil == "nil"
ErrIO == "io"                   \* an *os.PathError / io.EOF from the file calls
ErrCorrupted == "corrupted"     \* "pixidb: Database read revealed corrupted data on a page"
ErrPanic == "panic"             \* a run-time panic, no return at all

NoData == <<>>

\* How one write of a page record can end: completely, or with an error
\* at os.OpenFile, at the WriteAt of the checksum, or at the WriteAt of the
\* payload after n of its bytes reached the file.
WriteDone == [at |-> "done", n |-> 0]

\* A failing payload write leaves at most this many payload bytes in the file.
MaxPartial == 1

\* At most this many file writes fail in one run.
MaxFaults == 1

WriteFails ==
    {[at |-> "open", n |-> 0], [at |-> "crc", n |-> 0]}
        \cup {[at |-> "data", n |-> k] : k \in 0..MaxPartial}

\* The ways the next write can end after nf writes have failed.
WriteOutcomes(nf) == IF nf < MaxFaults THEN {WriteDone} \cup WriteFails ELSE {WriteDone}

Failed(wo) == IF wo.at = "done" THEN 0 ELSE 1

Pad(page) ==
    IF Len(page) < PageSize
    THEN page \o [i \in 1..(PageSize - Len(page)) |-> 0]
    ELSE page

writePage(d, pageIndex, page, wo) ==
    LET padded == Pad(page)
        checksum == ChecksumIEEE(padded)
        old == d[pageIndex].data
    IN  CASE wo.at = "crc" -> [disk |-> d, err |-> ErrIO]
          [] wo.at = "data" ->
                [disk |-> [d EXCEPT ![pageIndex] =
                              [crc |-> checksum,
                               data |-> [i \in 1..Len(padded) |->
                                            IF i <= wo.n THEN padded[i] ELSE old[i]]]],
                 err |-> ErrIO]
          [] OTHER ->
                [disk |-> [d EXCEPT ![pageIndex] = [crc |-> checksum, data |-> padded]],
                 err |-> ErrNil]

openAndWritePage(d, pageIndex, page, wo) ==
    IF wo.at = "open"
    THEN [disk |-> d, err |-> ErrIO]
    ELSE writePage(d, pageIndex, page, wo)

\* readPage without the comparison of the saved checksum.
readPageUnverified(d, pageIndex) ==
    IF pageIndex \notin DOMAIN d
    THEN [err |-> ErrIO, data |-> NoData]
    ELSE [err |-> ErrNil, data |-> d[pageIndex].data]

readPage(d, pageIndex) ==
    IF pageIndex \notin DOMAIN d
    THEN [err |-> ErrIO, data |-> NoData]        \* ReadAt past the end of the file
    ELSE IF d[pageIndex].crc # ChecksumIEEE(d[pageIndex].data)
    THEN [err |-> ErrCorrupted, data |-> NoData]
    ELSE [err |-> ErrNil, data |-> d[pageIndex].data]

\* len(p.cache) > p.maxCache
cacheFull(c) == Cardinality(DOMAIN c) > MaxPagesInCache

\* loadPage without the look into the cache it begins with: the page is
\* read from the file and put into the cache over the entry it has.
loadPageAlways(c, d, pageIndex, victim, wo) ==
    LET rd == readPage(d, pageIndex) IN
    IF rd.err # ErrNil
    THEN [cache |-> c, disk |-> d, err |-> rd.err, data |-> NoData, wrote |-> {}]
    ELSE [cache |-> [q \in DOMAIN c \cup {pageIndex} |->
                       IF q = pageIndex THEN [data |-> rd.data, dirty |-> FALSE] ELSE c[q]],
          disk |-> d, err |-> ErrNil, data |-> rd.data, wrote |-> {}]

\* loadPage that makes room in the cache before it reads the page.
loadPageEvictFirst(c, d, pageIndex, victim, wo) ==
    IF pageIndex \in DOMAIN c
    THEN [cache |-> c, disk |-> d, err |-> ErrNil, data |-> c[pageIndex].data, wrote |-> {}]
    ELSE LET rd == readPage(d, pageIndex)
             v == IF victim \in DOMAIN c THEN victim ELSE CHOOSE q \in DOMAIN c : TRUE
             room == [q \in IF cacheFull(c) THEN DOMAIN c \ {v} ELSE DOMAIN c |-> c[q]]
             dsk == IF cacheFull(c) THEN openAndWritePage(d, v, c[v].data, wo).disk ELSE d
             out == IF cacheFull(c) THEN {v} ELSE {}
         IN  IF rd.err # ErrNil
             THEN [cache |-> room, disk |-> dsk, err |-> rd.err, data |-> NoData, wrote |-> out]
             ELSE [cache |-> [q \in DOMAIN room \cup {pageIndex} |->
                                IF q = pageIndex THEN [data |-> rd.data, dirty |-> FALSE]
                                ELSE c[q]],
                   disk |-> dsk, err |-> ErrNil, data |-> rd.data, wrote |-> out]

\* loadPage reads the page and, when the cache is full, unloads
\* maps.Keys(p.cache)[0] - any key - writing it back with the error dropped.
loadPage(c, d, pageIndex, victim, wo) ==
    IF pageIndex \in DOMAIN c
    THEN [cache |-> c, disk |-> d, err |-> ErrNil, data |-> c[pageIndex].data, wrote |-> {}]
    ELSE LET rd == readPage(d, pageIndex) IN
         IF rd.err # ErrNil
         THEN [cache |-> c, disk |-> d, err |-> rd.err, data |-> NoData, wrote |-> {}]
         ELSE IF cacheFull(c)
         THEN LET w == openAndWritePage(d, victim, c[victim].data, wo) IN
              [cache |-> [q \in (DOMAIN c \ {victim}) \cup {pageIndex} |->
                            IF q = pageIndex THEN [data |-> rd.data, dirty |-> FALSE]
                            ELSE c[q]],
               disk |-> w.disk, err |-> ErrNil, data |-> rd.data, wrote |-> {victim}]
         ELSE [cache |-> [q \in DOMAIN c \cup {pageIndex} |->
                            IF q = pageIndex THEN [data |-> rd.data, dirty |-> FALSE]
                            ELSE c[q]],
               disk |-> d, err |-> ErrNil, data |-> rd.data, wrote |-> {}]

getPage(c, d, pageIndex, victim, wo) ==
    IF pageIndex \in DOMAIN c
    THEN [cache |-> c, disk |-> d, err |-> ErrNil, data |-> c[pageIndex].data, wrote |-> {}]
    ELSE loadPage(c, d, pageIndex, victim, wo)

\* The choices loadPage leaves open: the key it unloads and how that write ends.
evicts(c, d, pageIndex) ==
    cacheFull(c) /\ pageIndex \notin DOMAIN c /\ readPage(d, pageIndex).err = ErrNil

Victims(c, d, pageIndex) == IF evicts(c, d, pageIndex) THEN DOMAIN c ELSE {pageIndex}

EvictOutcomes(c, d, pageIndex, nf) ==
    IF evicts(c, d, pageIndex) THEN WriteOutcomes(nf) ELSE {WriteDone}

\* copy(page.data[offset:], chunk): min(len(dst), len(src)) bytes are copied.
copyAt(data, offset, chunk) ==
    [i \in 1..Len(data) |->
        IF i > offset /\ i <= offset + Len(chunk) THEN chunk[i - offset] ELSE data[i]]

\* page[offset : offset+size]
slice(data, offset, size) == [i \in 1..size |-> data[offset + i]]

----------------------------------------------------------------------------
(* Inputs of the calls.                                                    *)

\* Page indexes the Pagemaster's callers ask for: the first pages of the
\* file and the index one past its end.
MaxPageArg == 2

PageArgs == (0..MaxPageArg) \cup {pages}

\* Rows a caller writes (len(row) = rowSize).
RowVals == {<<1, 2>>, <<4, 5>>}

\* Byte offsets of the rows of a page.
RowOffsets == {r * rowSize : r \in 0..(rowsPerPage - 1)}

\* The chunk the Pagemaster's callers write with SetChunk, and where.
ChunkOffset == 1

ChunkVals == {<<1, 2>>}

\* Whole pages a caller hands to SetPage (len(page) = PageSize).
PageVals == {copyAt(defaultPage, ChunkOffset, <<1, 2>>)}

\* Bytes an outside writer may put over a payload byte.
TamperBytes == {0, 255}

\* At most this many pages are changed behind the Pagemaster's back.
MaxTampered == 1

tblVars == <<indexer, indexerName, metadata, tblFile, cells, opens, store, storeFile>>

thrVars == <<pc, loc, lock, detached>>

dbVars == <<cwd, db, fs>>

\* The map, and the directory, with nothing in it.
Nothing == [n \in {} |-> NoData]

\* NewDatabase(dbPath): no tables, the lock free.  created and dropped are
\* the callers' record of the names Create and Drop succeeded with, a name
\* being in dropped until it is created again; reading and writing are the
\* threads that are at an access to the map.
NewDatabase ==
    [tables |-> Nothing, writer |-> 0, readers |-> {}, created |-> {}, dropped |-> {},
     reading |-> {}, writing |-> {}]

\* What a call returned: its name, the page or row index it was given, the
\* error and the bytes it returned, and the pages it tried to write.
Result(op, index, err, val, wrote) ==
    [op |-> op, index |-> index, err |-> err, val |-> val, wrote |-> wrote]

----------------------------------------------------------------------------
(* The Pagemaster's public calls, each executed from call to return by one *)
(* caller.                                                                 *)

LoadPage(pageIndex) ==
    \E victim \in Victims(cache, disk, pageIndex),
       wo \in EvictOutcomes(cache, disk, pageIndex, faults) :
        LET r == loadPage(cache, disk, pageIndex, victim, wo) IN
        /\ cache' = r.cache
        /\ disk' = r.disk
        /\ ret' = Result("LoadPage", pageIndex, r.err, r.data, r.wrote)
        /\ faults' = faults + Failed(wo)
        /\ UNCHANGED <<written, tampered, tblVars, thrVars, crcMemo, dbVars>>

GetPage(pageIndex) ==
    \E victim \in Victims(cache, disk, pageIndex),
       wo \in EvictOutcomes(cache, disk, pageIndex, faults) :
        LET r == getPage(cache, disk, pageIndex, victim, wo) IN
        /\ cache' = r.cache
        /\ disk' = r.disk
        /\ ret' = Result("GetPage", pageIndex, r.err, r.data, r.wrote)
        /\ faults' = faults + Failed(wo)
        /\ UNCHANGED <<written, tampered, tblVars, thrVars, crcMemo, dbVars>>

GetChunk(pageIndex, offset, size) ==
    \E victim \in Victims(cache, disk, pageIndex),
       wo \in EvictOutcomes(cache, disk, pageIndex, faults) :
        LET r == getPage(cache, disk, pageIndex, victim, wo) IN
        /\ cache' = r.cache
        /\ disk' = r.disk
        /\ ret' = Result("GetChunk", pageIndex, r.err,
                         IF r.err = ErrNil THEN slice(r.data, offset, size) ELSE NoData,
                         r.wrote)
        /\ faults' = faults + Failed(wo)
        /\ UNCHANGED <<written, tampered, tblVars, thrVars, crcMemo, dbVars>>

SetPage(pageIndex, page) ==
    \E victim \in Victims(cache, disk, pageIndex),
       wo \in EvictOutcomes(cache, disk, pageIndex, faults) :
        LET r == getPage(cache, disk, pageIndex, victim, wo) IN
        /\ cache' = IF r.err # ErrNil THEN r.cache
                    ELSE [r.cache EXCEPT ![pageIndex] = [data |-> page, dirty |-> TRUE]]
        /\ disk' = r.disk
        /\ ret' = Result("SetPage", pageIndex, r.err, NoData, r.wrote)
        /\ faults' = faults + Failed(wo)
        /\ UNCHANGED <<written, tampered, tblVars, thrVars, crcMemo, dbVars>>

setChunk(c, d, pageIndex, offset, chunk, victim, wo) ==
    LET r == getPage(c, d, pageIndex, victim, wo) IN
    IF r.err # ErrNil THEN r
    ELSE [r EXCEPT !.cache = [r.cache EXCEPT ![pageIndex] =
                                [data |-> copyAt(r.cache[pageIndex].data, offset, chunk),
                                 dirty |-> TRUE]]]

SetChunk(pageIndex, offset, chunk) ==
    \E victim \in Victims(cache, disk, pageIndex),
       wo \in EvictOutcomes(cache, disk, pageIndex, faults) :
        LET r == setChunk(cache, disk, pageIndex, offset, chunk, victim, wo) IN
        /\ cache' = r.cache
        /\ disk' = r.disk
        /\ ret' = Result("SetChunk", pageIndex, r.err, NoData, r.wrote)
        /\ faults' = faults + Failed(wo)
        /\ UNCHANGED <<written, tampered, tblVars, thrVars, crcMemo, dbVars>>

\* if err == nil { page.dirty = true }
flushedDirty(err, dirty) == IF err = ErrNil THEN TRUE ELSE dirty

FlushPage(pageIndex) ==
    \E wo \in (IF pageIndex \in DOMAIN cache THEN WriteOutcomes(faults) ELSE {WriteDone}) :
        IF pageIndex \notin DOMAIN cache
        THEN /\ ret' = Result("FlushPage", pageIndex, ErrNil, NoData, {})
             /\ UNCHANGED <<cache, disk, written, tampered, faults, tblVars, thrVars, crcMemo, dbVars>>
        ELSE LET w == openAndWritePage(disk, pageIndex, cache[pageIndex].data, wo) IN
             /\ disk' = w.disk
             /\ cache' = [cache EXCEPT ![pageIndex].dirty = flushedDirty(w.err, @)]
             /\ ret' = Result("FlushPage", pageIndex, w.err, NoData, {pageIndex})
             /\ faults' = faults + Failed(wo)
             /\ UNCHANGED <<written, tampered, tblVars, thrVars, crcMemo, dbVars>>

\* The loop of FlushAllPages over the cache in the order `order` (Go's map
\* order is any order); the write of page `failing` ends as `wo`.
RECURSIVE flushAll(_, _, _, _, _, _, _)
flushAll(c, d, order, i, failing, wo, wrote) ==
    IF i > Len(order)
    THEN [cache |-> c, disk |-> d, err |-> ErrNil, wrote |-> wrote]
    ELSE LET id == order[i] IN
         IF ~c[id].dirty
         THEN flushAll(c, d, order, i + 1, failing, wo, wrote)
         ELSE LET w == openAndWritePage(d, id, c[id].data,
                                        IF id = failing THEN wo ELSE WriteDone) IN
              IF w.err # ErrNil
              THEN [cache |-> c, disk |-> w.disk, err |-> w.err, wrote |-> wrote \cup {id}]
              ELSE flushAll([c EXCEPT ![id].dirty = FALSE], w.disk, order, i + 1,
                            failing, wo, wrote \cup {id})

Orders(S) == {o \in [1..Cardinality(S) -> S] : \A i, j \in DOMAIN o : i # j => o[i] # o[j]}

\* The index field of the result of a call that names no page.
NoPage == 0 - 1

\* Which write of FlushAllPages fails, if any, and how.
FlushPlans(c, nf) ==
    {[failing |-> NoPage, wo |-> WriteDone]}
        \cup (IF nf < MaxFaults
              THEN {[failing |-> q, wo |-> wo] : q \in {q \in DOMAIN c : c[q].dirty},
                                                 wo \in WriteFails}
              ELSE {})

FlushAllPages ==
    \E order \in Orders(DOMAIN cache), plan \in FlushPlans(cache, faults) :
        LET r == flushAll(cache, disk, order, 1, plan.failing, plan.wo, {}) IN
        /\ cache' = r.cache
        /\ disk' = r.disk
        /\ ret' = Result("FlushAllPages", NoPage, r.err, NoData, r.wrote)
        /\ faults' = faults + (IF r.err = ErrNil THEN 0 ELSE 1)
        /\ UNCHANGED <<written, tampered, tblVars, thrVars, crcMemo, dbVars>>


----------------------------------------------------------------------------
(* The Store's calls: rows laid over the Pagemaster's pages.               *)

\* pageIndex := index / s.rowsPerPage
pageIndexOf(index) == index \div store.rowsPerPage

\* The offset of a row counted from the start of the file's first page.
rowOffsetOfUnwrapped(index) == index * store.rowSize

\* rowOffset := (index % s.rowsPerPage) * s.rowSize
rowOffsetOf(index) == (index % store.rowsPerPage) * store.rowSize

\* return s.file.GetChunk(pageIndex, rowOffset, s.rowSize)
getRowAt(c, d, index, victim, wo) ==
    LET r == getPage(c, d, pageIndexOf(index), victim, wo) IN
    [r EXCEPT !.data = IF r.err = ErrNil
                       THEN slice(r.data, rowOffsetOf(index), store.rowSize)
                       ELSE NoData]

GetRowAt(index) ==
    \E victim \in Victims(cache, disk, pageIndexOf(index)),
       wo \in EvictOutcomes(cache, disk, pageIndexOf(index), faults) :
        LET r == getRowAt(cache, disk, index, victim, wo) IN
        /\ cache' = r.cache
        /\ disk' = r.disk
        /\ ret' = Result("GetRowAt", index, r.err, r.data, r.wrote)
        /\ faults' = faults + Failed(wo)
        /\ UNCHANGED <<written, tampered, tblVars, thrVars, crcMemo, dbVars>>

SetRowAt(index, row) ==
    \E victim \in Victims(cache, disk, pageIndexOf(index)),
       wo \in EvictOutcomes(cache, disk, pageIndexOf(index), faults) :
        LET r == setChunk(cache, disk, pageIndexOf(index), rowOffsetOf(index), row, victim, wo) IN
        /\ cache' = r.cache
        /\ disk' = r.disk
        /\ ret' = Result("SetRowAt", index, r.err, NoData, r.wrote)
        /\ written' = IF r.err = ErrNil THEN [written EXCEPT ![index] = row] ELSE written
        /\ faults' = faults + Failed(wo)
        /\ UNCHANGED <<tampered, tblVars, thrVars, crcMemo, dbVars>>

\* Store.Checkpoint: return s.file.FlushAllPages()
Checkpoint ==
    \E order \in Orders(DOMAIN cache), plan \in FlushPlans(cache, faults) :
        LET r == flushAll(cache, disk, order, 1, plan.failing, plan.wo, {}) IN
        /\ cache' = r.cache
        /\ disk' = r.disk
        /\ ret' = Result("Checkpoint", NoPage, r.err, NoData, r.wrote)
        /\ faults' = faults + (IF r.err = ErrNil THEN 0 ELSE 1)
        /\ UNCHANGED <<written, tampered, tblVars, thrVars, crcMemo, dbVars>>

\* OpenStore: a new Pagemaster (an empty cache) over the existing data file.
OpenStore(d) == [cache |-> <<>>, disk |-> d]

----------------------------------------------------------------------------
(* The Table: a LocationIndexer over a Store, its metadata kept as JSON.   *)

NewProjectionlessIndexer(width, height, rowMajor) ==
    [Name |-> "projectionless", Width |-> width, Height |-> height, RowMajor |-> rowMajor]

\* The fields grid and proj are unexported; proj plays no part in ToIndex
\* of a GridLocation and is left out.
NewCylindricalEquirectangularIndexer(parallel, width, height, rowMajor) ==
    [Name |-> "cylindrical-equirectangular", Parallel |-> parallel,
     grid |-> NewProjectionlessIndexer(width, height, rowMajor)]

\* Angles are whole degrees: Pi is the half turn.
Pi == 180

\* flatsphere.Mercator.Project(lat, 0): the projected latitude, in
\* thousandths, on the whole degrees between the poles; it grows with the
\* latitude and is odd.  Between the latitudes of the table it is taken
\* linear.
MercatorKnots == <<[lat |-> 0, y |-> 0], [lat |-> 45, y |-> 881], [lat |-> 80, y |-> 2436],
                   [lat |-> 89, y |-> 4741]>>

mercatorAbs(lat) ==
    LET k == CHOOSE i \in 1..(Len(MercatorKnots) - 1) :
                 MercatorKnots[i].lat <= lat /\ lat <= MercatorKnots[i + 1].lat
        a == MercatorKnots[k]
        b == MercatorKnots[k + 1]
    IN  a.y + (((lat - a.lat) * (b.y - a.y)) \div (b.lat - a.lat))

mercatorY(lat) == IF lat >= 0 THEN mercatorAbs(lat) ELSE 0 - mercatorAbs(0 - lat)

\* NewMercatorCutoffIndexer panics when the north cutoff is not above the
\* south cutoff.
mercatorPanics(northCutoff, southCutoff) == northCutoff <= southCutoff

\* The fields southProj, latRangeProj, grid and proj are unexported; proj
\* has no parameters and is left out.
NewMercatorCutoffIndexer(northCutoff, southCutoff, width, height, rowMajor) ==
    [Name |-> "mercator-cutoff", NorthCutoff |-> northCutoff, SouthCutoff |-> southCutoff,
     southProj |-> mercatorY(southCutoff),
     latRangeProj |-> mercatorY(northCutoff) - mercatorY(southCutoff),
     grid |-> NewProjectionlessIndexer(width, height, rowMajor)]

NewFlatHealpixIndexer(order, scheme) ==
    [Name |-> "flat-healpix", Scheme |-> scheme, Order |-> order]

\* A grid numbered with the wrong stride: the height along a row, the
\* width along a column.
gridToIndexWrongStride(g, l) ==
    IF g.RowMajor THEN l.Y * g.Height + l.X ELSE l.X * g.Width + l.Y

\* ProjectionlessIndexer.ToIndex of a GridLocation.
gridToIndex(g, l) == IF g.RowMajor THEN l.Y * g.Width + l.X ELSE l.X * g.Height + l.Y

\* ToIndex of a GridLocation, for the indexers that take one.
ToIndex(ix, l) ==
    IF ix.Name = "projectionless" THEN gridToIndex(ix, l) ELSE gridToIndex(ix.grid, l)

\* healpix.HealpixOrder.Pixels(): 12 * nside^2 with nside = 2^order.
Pixels(order) == 12 * (4 ^ order)

Size(ix) ==
    CASE ix.Name = "projectionless" -> ix.Width * ix.Height
      [] ix.Name = "flat-healpix" -> Pixels(ix.Order)
      [] OTHER -> ix.grid.Width * ix.grid.Height

\* json.Marshal of an indexer: its exported fields, under their tags.
MarshalIndexer(ix) ==
    CASE ix.Name = "projectionless" ->
            [width |-> ix.Width, heigh |-> ix.Height, rowmajor |-> ix.RowMajor]
      [] ix.Name = "mercator-cutoff" ->
            [northCutoff |-> ix.NorthCutoff, southCutoff |-> ix.SouthCutoff]
      [] ix.Name = "flat-healpix" -> [scheme |-> ix.Scheme, order |-> ix.Order]
      [] OTHER -> [parallel |-> ix.Parallel]

\* json.Unmarshal into a fresh indexer value of the type of that name: the
\* fields the JSON object names are set, every other field keeps its zero
\* value.
UnmarshalIndexer(name, obj) ==
    CASE name = "projectionless" ->
            [Name |-> name, Width |-> obj.width, Height |-> obj.heigh,
             RowMajor |-> obj.rowmajor]
      [] name = "mercator-cutoff" ->
            [Name |-> name, NorthCutoff |-> obj.northCutoff, SouthCutoff |-> obj.southCutoff,
             southProj |-> 0, latRangeProj |-> 0,
             grid |-> NewProjectionlessIndexer(0, 0, FALSE)]
      [] name = "flat-healpix" -> [Name |-> name, Scheme |-> obj.scheme, Order |-> obj.order]
      [] OTHER -> [Name |-> name, Parallel |-> obj.parallel,
                   grid |-> NewProjectionlessIndexer(0, 0, FALSE)]

\* The keys NewTable puts into the metadata, and the keys of a map in the
\* order json.Marshal writes them, which is sorted.
ProjectionKey == "projection"

CreatedAt == "created-at"

KeyOrder == <<CreatedAt, "k1", "k2", ProjectionKey>>

\* The text of a string value: one token for every character.
RECURSIVE charTokens(_, _)
charTokens(value, n) ==
    IF n = 0 THEN <<>> ELSE Append(charTokens(value, n - 1), [char |-> value[n]])

\* The text of the first n keys of a map, a key and then its value.
RECURSIVE marshalMap(_, _)
marshalMap(m, n) ==
    IF n = 0 THEN <<>>
    ELSE IF KeyOrder[n] \in DOMAIN m
    THEN marshalMap(m, n - 1) \o <<[key |-> KeyOrder[n]]>>
            \o charTokens(m[KeyOrder[n]], Len(m[KeyOrder[n]]))
    ELSE marshalMap(m, n - 1)

\* json.Marshal(t): the exported fields of the Table in the order of the
\* struct, then the end of the object.
MarshalTable(ix, name, meta) ==
    <<[indexer |-> MarshalIndexer(ix)], [indexerName |-> name]>>
        \o marshalMap(meta, Len(KeyOrder)) \o <<[close |-> TRUE]>>

\* os.OpenFile(path, O_RDWR|O_CREATE) and Write(jsonData): the text goes
\* over the start of the file, and what the file held beyond it stays.
writeOver(file, text) == text \o SubSeq(file, Len(text) + 1, Len(file))

\* saveTableMetadata
saveTableMetadata(file, ix, name, meta) == writeOver(file, MarshalTable(ix, name, meta))

ErrJSON == "invalid character after top-level value"

\* json.Unmarshal checks the whole text first: it is one JSON object, with
\* nothing but space after its end.
validJSON(text) ==
    /\ Len(text) >= 3
    /\ \A i \in DOMAIN text : "close" \in DOMAIN text[i] <=> i = Len(text)

\* The metadata map read from the first n tokens after the indexer name.
RECURSIVE unmarshalMap(_, _)
unmarshalMap(tokens, n) ==
    IF n = 0 THEN [k \in {} |-> <<>>]
    ELSE LET m == unmarshalMap(tokens, n - 1)
             last == CHOOSE i \in 1..n : /\ "key" \in DOMAIN tokens[i]
                                         /\ \A j \in (i + 1)..n : "key" \notin DOMAIN tokens[j]
         IN  IF "key" \in DOMAIN tokens[n]
             THEN [k \in DOMAIN m \cup {tokens[n].key} |->
                     IF k = tokens[n].key THEN <<>> ELSE m[k]]
             ELSE [m EXCEPT ![tokens[last].key] = Append(@, tokens[n].char)]

\* Table.UnmarshalJSON: the metadata, the indexer name, then the indexer
\* of the type of that name.
UnmarshalJSON(text) ==
    IF ~validJSON(text) THEN [err |-> ErrJSON]
    ELSE [err |-> ErrNil,
          Metadata |-> unmarshalMap(SubSeq(text, 3, Len(text) - 1), Len(text) - 3),
          IndexerName |-> text[2].indexerName,
          Indexer |-> UnmarshalIndexer(text[2].indexerName, text[1].indexer)]

\* initColumnMap with the offset never advanced.
initColumnMapNoOffset(cols) ==
    [i \in DOMAIN cols |-> [index |-> i - 1, start |-> 0, size |-> ColumnSize(cols[i])]]

\* initColumnMap: column -> ColumnProjection{index, start, size}
initColumnMap(cols) ==
    [i \in DOMAIN cols |-> [index |-> i - 1, start |-> sumSizes(cols, i - 1),
                            size |-> ColumnSize(cols[i])]]

\* The projection on every column of the schema, in order.
columnProj == initColumnMap(ColumnSet)

ErrColumnNotFound == "column not found in store"

\* The error without the name of the store.
ColumnNotFoundErrorUnnamed(storeName, column) == [Store |-> "", Column |-> column]

\* ColumnNotFoundError{Store, Column}
NewColumnNotFoundError(storeName, column) == [Store |-> storeName, Column |-> column]

\* s.columnMap[c]: the entry initColumnMap left under the name c, that of
\* the last column of that name, or none.
columnMapAt(cols, c) ==
    LET at == {i \in DOMAIN cols : cols[i].Name = c} IN
    IF at = {} THEN [ok |-> FALSE]
    ELSE [ok |-> TRUE, proj |-> initColumnMap(cols)[CHOOSE i \in at : \A j \in at : j <= i]]

\* Store.Projection(columns...) over the first n names: the triples in
\* request order, or the error for the first name that is not a column;
\* detail is the ColumnNotFoundError.
RECURSIVE projection(_, _, _)
projection(st, columns, n) ==
    IF n = 0 THEN [err |-> ErrNil, proj |-> <<>>, detail |-> NoData]
    ELSE LET before == projection(st, columns, n - 1)
             cproj == columnMapAt(st.ColumnSet, columns[n])
         IN  IF before.err # ErrNil THEN before
             ELSE IF ~cproj.ok
             THEN [err |-> ErrColumnNotFound, proj |-> NoData,
                   detail |-> NewColumnNotFoundError(st.Name, columns[n])]
             ELSE [before EXCEPT !.proj = Append(@, cproj.proj)]

\* Store.FilterColumns
FilterColumns(st, proj) == [i \in DOMAIN proj |-> st.ColumnSet[proj[i].index + 1]]

\* Row.Project
Project(row, proj) == [i \in DOMAIN proj |-> slice(row, proj[i].start, proj[i].size)]

\* for vInd, c := range columnProj { copy(rawRow[c.start:c.start+c.size], values[vInd]) }
RECURSIVE copyValues(_, _, _, _)
copyValues(row, proj, values, n) ==
    IF n = 0 THEN row
    ELSE copyAt(copyValues(row, proj, values, n - 1), proj[n].start,
                slice(values[n], 0, IF Len(values[n]) < proj[n].size
                                    THEN Len(values[n]) ELSE proj[n].size))

\* The Location variants, told apart by their fields as the type switch
\* of ToIndex tells them apart by their type.  A GridLocation is [X, Y];
\* a value of any other type, a slice of locations among them, is of no
\* variant.
IndexLocation(i) == [Index |-> i]

NestLocation(n) == [Nest |-> n]

UniqueLocation(u) == [Unique |-> u]

SphericalLocation(lat, lon) == [Latitude |-> lat, Longitude |-> lon]

ProjectedLocation(x, y) == [X |-> x, Y |-> y, type |-> "ProjectedLocation"]

RectangularLocation(x, y, z) == [X |-> x, Y |-> y, Z |-> z]

LocationType(l) ==
    CASE DOMAIN l = {"Index"} -> "IndexLocation"
      [] DOMAIN l = {"Ring"} -> "RingLocation"
      [] DOMAIN l = {"Nest"} -> "NestLocation"
      [] DOMAIN l = {"Unique"} -> "UniqueLocation"
      [] DOMAIN l = {"X", "Y"} -> "GridLocation"
      [] DOMAIN l = {"Latitude", "Longitude"} -> "SphericalLocation"
      [] DOMAIN l = {"X", "Y", "type"} -> "ProjectedLocation"
      [] DOMAIN l = {"X", "Y", "Z"} -> "RectangularLocation"
      [] OTHER -> "other"

IsGrid(l) == LocationType(l) = "GridLocation"

ErrLocationNotSupported == "location not supported by projection"

ErrLocationOutOfBounds == "location was out of bounds"

\* A LocationNotSupportedError that does not say which projection.
LocationNotSupportedErrorUnnamed(projName, location) ==
    [err |-> ErrLocationNotSupported, index |-> 0 - 1,
     detail |-> [Projection |-> "", Location |-> location]]

\* LocationNotSupportedError{Projection, Location}
NewLocationNotSupportedError(projName, location) ==
    [err |-> ErrLocationNotSupported, index |-> 0 - 1,
     detail |-> [Projection |-> projName, Location |-> location]]

\* LocationOutOfBoundsError{Location}
NewLocationOutOfBoundsError(location) ==
    [err |-> ErrLocationOutOfBounds, index |-> 0 - 1, detail |-> [Location |-> location]]

\* What ToIndex returns with an index.
found(index) == [err |-> ErrNil, index |-> index, detail |-> NoData]

\* The quotient rounded to the nearest integer, halves away from zero: what
\* int(a / b) is not.
roundDiv(a, b) == IF a >= 0 THEN (2 * a + b) \div (2 * b) ELSE 0 - ((2 * (0 - a) + b) \div (2 * b))

\* int(a / b) for b > 0: the quotient without its fraction, towards zero.
truncDiv(a, b) == IF a >= 0 THEN a \div b ELSE 0 - ((0 - a) \div b)


\* int(xPix), int(yPix): the pixel of a fraction num / den of the way along
\* an axis of n pixels.

pixel(num, den, n) == truncDiv(num * (n - 1), den)

\* RectangularLocation.ToSpherical on the unit vectors of the axes:
\* theta = atan2(sqrt(x^2 + y^2), z) and phi = atan2(y, x), turned into
\* [0, 2 Pi).
ToSpherical(r) ==
    LET theta == IF r.Z > 0 THEN 0 ELSE IF r.Z < 0 THEN Pi ELSE Pi \div 2
        phi == IF r.Y > 0 THEN Pi \div 2
               ELSE IF r.Y < 0 THEN (3 * Pi) \div 2
               ELSE IF r.X < 0 THEN Pi ELSE 0
    IN  SphericalLocation(theta, phi)

\* ToIndex of a ProjectedLocation for the two projected grids: the planar
\* bounds of the Mercator projection are [-Pi, Pi] in x, those of the
\* equirectangular projection of parallel 0 are [-Pi, Pi] in x and
\* [-Pi/2, Pi/2] in y.
projectedToIndex(ix, x, y) ==
    IF ix.Name = "mercator-cutoff"
    THEN found(gridToIndex(ix.grid,
                 [X |-> pixel(x + Pi, 2 * Pi, ix.grid.Width),
                  Y |-> pixel(y - ix.southProj, ix.latRangeProj, ix.grid.Height)]))
    ELSE found(gridToIndex(ix.grid,
                 [X |-> pixel(x + Pi, 2 * Pi, ix.grid.Width),
                  Y |-> pixel(2 * y + Pi, 2 * Pi, ix.grid.Height)]))

\* A Mercator grid that turns down the latitudes of the cutoffs too.
sphericalToIndexExclusive(ix, l) ==
    IF ix.Name = "mercator-cutoff"
    THEN IF l.Latitude >= ix.NorthCutoff \/ l.Latitude <= ix.SouthCutoff
         THEN NewLocationOutOfBoundsError(l)
         ELSE projectedToIndex(ix, l.Longitude, mercatorY(l.Latitude))
    ELSE projectedToIndex(ix, l.Longitude, l.Latitude)

\* ToIndex of a SphericalLocation for the two projected grids: Project,
\* then ToIndex of the ProjectedLocation; the Mercator grid first turns
\* down a latitude beyond its cutoffs.
sphericalToIndex(ix, l) ==
    IF ix.Name = "mercator-cutoff"
    THEN IF l.Latitude > ix.NorthCutoff \/ l.Latitude < ix.SouthCutoff
         THEN NewLocationOutOfBoundsError(l)
         ELSE projectedToIndex(ix, l.Longitude, mercatorY(l.Latitude))
    ELSE projectedToIndex(ix, l.Longitude, l.Latitude)

\* healpix PixelId of a pixel location: the number of the pixel in the
\* scheme of the indexer.  The unique number of a pixel is its nested
\* number plus 4 * nside^2; at order 0 the ring and the nested number of a
\* pixel are the same, and only there is a number of one scheme asked for
\* in the other.
healpixPixelId(ix, l) ==
    CASE LocationType(l) = "RingLocation" -> l.Ring
      [] LocationType(l) = "NestLocation" -> l.Nest
      [] LocationType(l) = "UniqueLocation" -> l.Unique - 4 * (4 ^ ix.Order)

\* The variants with a case in the type switch of the indexer's ToIndex.
Listed(ix) ==
    CASE ix.Name = "projectionless" -> {"IndexLocation", "GridLocation"}
      [] ix.Name = "flat-healpix" ->
            {"IndexLocation", "RingLocation", "NestLocation", "UniqueLocation",
             "SphericalLocation", "ProjectedLocation", "RectangularLocation"}
      [] OTHER -> {"IndexLocation", "GridLocation", "SphericalLocation", "ProjectedLocation",
                   "RectangularLocation"}

\* ToIndex(loc) of the four indexers.  The pixel the healpix package
\* gives a spherical, projected or rectangular location is not modelled:
\* the model does not call the healpix indexer with one.
toIndex(ix, l) ==
    LET t == LocationType(l) IN
    CASE t \notin Listed(ix) -> NewLocationNotSupportedError(ix.Name, l)
      [] t = "IndexLocation" -> found(l.Index)
      [] t = "GridLocation" -> found(ToIndex(ix, l))
      [] t \in {"RingLocation", "NestLocation", "UniqueLocation"} -> found(healpixPixelId(ix, l))
      [] t = "SphericalLocation" /\ ix.Name # "flat-healpix" -> sphericalToIndex(ix, l)
      [] t = "ProjectedLocation" /\ ix.Name # "flat-healpix" -> projectedToIndex(ix, l.X, l.Y)
      [] t = "RectangularLocation" /\ ix.Name # "flat-healpix" ->
            sphericalToIndex(ix, ToSpherical(l))

\* The loops of SetRows and GetRows run over st = [cache, disk, nf, wrote]:
\* the cache, the file, the writes that have failed and the pages written.
\* Where loadPage has a choice, of the page it unloads and of how that
\* write ends, the loops have one outcome for every choice: setRows and
\* getRows are the sets of the outcomes.
after(st, r, wo) ==
    [cache |-> r.cache, disk |-> r.disk, nf |-> st.nf + Failed(wo), wrote |-> st.wrote \cup r.wrote]

\* return i, err: the count of the locations before the one the loop
\* stopped at, which is location i of the model's lists, counted from 1.
writtenBefore(i) == i - 1

\* SetRows from location i on.  rawRow is a slice of the cached page, so
\* the copy of the values changes the page in the cache before SetRowAt
\* is called.
RECURSIVE setRows(_, _, _, _, _, _)
RECURSIVE setRow(_, _, _, _, _, _, _, _, _)
setRows(st, ix, proj, locations, values, i) ==
    IF i > Len(locations)
    THEN {[st |-> st, err |-> ErrNil, n |-> Len(locations)]}
    ELSE IF toIndex(ix, locations[i]).err # ErrNil
    THEN {[st |-> st, err |-> toIndex(ix, locations[i]).err, n |-> writtenBefore(i)]}
    ELSE UNION {setRow(st, ix, proj, locations, values, i, rowInd,
                       getRowAt(st.cache, st.disk, rowInd, victim, wo), wo) :
                  rowInd \in {toIndex(ix, locations[i]).index},
                  victim \in Victims(st.cache, st.disk,
                                     pageIndexOf(toIndex(ix, locations[i]).index)),
                  wo \in EvictOutcomes(st.cache, st.disk,
                                       pageIndexOf(toIndex(ix, locations[i]).index), st.nf)}

\* values[i], as far as there is one: without it, and with fewer values
\* than columns, values[i][vInd] panics in the loop over the columns, after
\* the values there are were copied into the row, which is a slice of the
\* page in the cache.
valuesFor(values, i) == IF i \in DOMAIN values THEN values[i] ELSE <<>>

\* The body of the loop for location i: rowInd is its row, got what
\* GetRowAt(rowInd) returned and wo how the write of the page it unloaded
\* ended.
setRow(st, ix, proj, locations, values, i, rowInd, got, wo) ==
    IF got.err # ErrNil
    THEN {[st |-> after(st, got, wo), err |-> got.err, n |-> writtenBefore(i)]}
    ELSE IF Len(valuesFor(values, i)) < Len(proj)
    THEN {[st |-> after(st, [got EXCEPT
                               !.cache[pageIndexOf(rowInd)].data =
                                   copyAt(@, rowOffsetOf(rowInd),
                                          copyValues(got.data, proj, valuesFor(values, i),
                                                     Len(valuesFor(values, i))))], wo),
           err |-> ErrPanic, n |-> writtenBefore(i)]}
    ELSE LET pg == pageIndexOf(rowInd)
             rawRow == copyValues(got.data, proj, values[i], Len(proj))
             aliased == [got.cache EXCEPT
                           ![pg].data = copyAt(@, rowOffsetOf(rowInd), rawRow)]
             set == setChunk(aliased, got.disk, pg, rowOffsetOf(rowInd), rawRow,
                             pg, WriteDone)
         IN  setRows(after(st, [set EXCEPT !.wrote = got.wrote], wo), ix, proj,
                     locations, values, i + 1)

\* GetRows from location i on; rows are the rows projected so far.
RECURSIVE getRows(_, _, _, _, _, _)
RECURSIVE getRow(_, _, _, _, _, _, _, _, _)
getRows(st, ix, proj, locations, i, rows) ==
    IF i > Len(locations)
    THEN {[st |-> st, err |-> ErrNil, rows |-> rows]}
    ELSE IF toIndex(ix, locations[i]).err # ErrNil
    THEN {[st |-> st, err |-> toIndex(ix, locations[i]).err, rows |-> NoData]}
    ELSE UNION {getRow(st, ix, proj, locations, i, rows, locIndex,
                       getRowAt(st.cache, st.disk, locIndex, victim, wo), wo) :
                  locIndex \in {toIndex(ix, locations[i]).index},
                  victim \in Victims(st.cache, st.disk,
                                     pageIndexOf(toIndex(ix, locations[i]).index)),
                  wo \in EvictOutcomes(st.cache, st.disk,
                                       pageIndexOf(toIndex(ix, locations[i]).index), st.nf)}

\* The body of the loop for location i: locIndex is its row, got what
\* GetRowAt(locIndex) returned and wo how the write of the page it
\* unloaded ended.
getRow(st, ix, proj, locations, i, rows, locIndex, got, wo) ==
    IF got.err # ErrNil
    THEN {[st |-> after(st, got, wo), err |-> got.err, rows |-> NoData]}
    ELSE getRows(after(st, got, wo), ix, proj, locations, i + 1,
                 Append(rows, Project(got.data, proj)))

\* GridLocation{X, Y} for every cell of the grid.
Locations == {[X |-> x, Y |-> y] : x \in 0..(Width - 1), y \in 0..(Height - 1)}

\* The value the callers write into a column at a location: distinct for
\* every location of the grid.
valueOf(l, column) ==
    IF ~IsGrid(l) THEN <<30>>
    ELSE IF column = "col1" THEN <<10 + l.X>> ELSE <<20 + l.Y>>

\* The values the callers write at a location, for every column.
valuesAt(l) == << valueOf(l, "col1"), valueOf(l, "col2") >>

\* What a call of the Table returned: as Result, with the columns it was
\* given and, for an unknown column, the ColumnNotFoundError.
TableResult(op, columns, locations, err, val, wrote, detail) ==
    [op |-> op, columns |-> columns, index |-> locations, err |-> err, val |-> val,
     wrote |-> wrote, detail |-> detail]

\* The values of a location after the first n locations of a SetRows on
\* the columns of proj were written.
cellsAfter(old, l, proj, locations, values, n) ==
    IF \E i \in 1..n : locations[i] = l
    THEN LET last == CHOOSE i \in 1..n : locations[i] = l /\ \A h \in (i + 1)..n : locations[h] # l
         IN  [k \in DOMAIN old |->
                IF \E j \in DOMAIN proj : proj[j].index + 1 = k
                THEN values[last][CHOOSE j \in DOMAIN proj :
                                     /\ proj[j].index + 1 = k
                                     /\ \A h \in DOMAIN proj : proj[h].index + 1 = k => h <= j]
                ELSE old[k]]
    ELSE old

\* Table.SetRows(columns, locations, values)
SetRowValues(columns, locations, values) ==
    LET p == projection(store, columns, Len(columns)) IN
    IF p.err # ErrNil
    THEN /\ ret' = TableResult("SetRows", columns, locations, p.err, 0, {}, p.detail)
                       @@ [values |-> values]
         /\ UNCHANGED <<disk, cache, written, tampered, faults, tblVars, thrVars, crcMemo, dbVars>>
    ELSE \E r \in setRows([cache |-> cache, disk |-> disk, nf |-> faults, wrote |-> {}],
                          indexer, p.proj, locations, values, 1) :
            /\ cache' = r.st.cache
            /\ disk' = r.st.disk
            /\ faults' = r.st.nf
            /\ ret' = TableResult("SetRows", columns, locations, r.err, r.n, r.st.wrote,
                                  NoData) @@ [values |-> values]
            /\ cells' = [l \in Locations |->
                            cellsAfter(cells[l], l, p.proj, locations, values, r.n)]
            /\ UNCHANGED <<written, tampered, indexer, indexerName, metadata, tblFile, opens,
                           store, storeFile, thrVars, crcMemo, dbVars>>

\* Table.SetRows with the values the callers write at the locations.
SetRows(columns, locations) ==
    SetRowValues(columns, locations,
                 [i \in DOMAIN locations |->
                     [j \in DOMAIN columns |-> valueOf(locations[i], columns[j])]])

GetRows(columns, locations) ==
    LET p == projection(store, columns, Len(columns)) IN
    IF p.err # ErrNil
    THEN /\ ret' = TableResult("GetRows", columns, locations, p.err, NoData, {}, p.detail)
         /\ UNCHANGED <<disk, cache, written, tampered, faults, tblVars, thrVars, crcMemo, dbVars>>
    ELSE \E r \in getRows([cache |-> cache, disk |-> disk, nf |-> faults, wrote |-> {}],
                          indexer, p.proj, locations, 1, <<>>) :
            /\ cache' = r.st.cache
            /\ disk' = r.st.disk
            /\ faults' = r.st.nf
            /\ ret' = TableResult("GetRows", columns, locations, r.err, r.rows, r.st.wrote,
                                  NoData)
            /\ UNCHANGED <<written, tampered, tblVars, thrVars, crcMemo, dbVars>>

\* Store.Projection(columns...)
Projection(columns) ==
    LET p == projection(store, columns, Len(columns)) IN
    /\ ret' = TableResult("Projection", columns, NoPage, p.err, p.proj, {}, p.detail)
    /\ UNCHANGED <<disk, cache, written, tampered, faults, tblVars, thrVars, crcMemo, dbVars>>

\* Pagemaster.Initialize(pages, defaultPage)
RECURSIVE Initialize(_, _, _)
Initialize(d, n, page) ==
    IF n = 0 THEN d
    ELSE LET prev == Initialize(d, n - 1, page)
             grown == [q \in 0..(n - 1) |->
                         IF q \in DOMAIN prev THEN prev[q]
                         ELSE [crc |-> <<0, 0, 0, 0>>, data |-> [i \in 1..PageSize |-> 0]]]
         IN  writePage(grown, n - 1, page, WriteDone).disk

EmptyFile == [q \in {} |-> 0]

----------------------------------------------------------------------------
(* NewStore and OpenStore: the Store's fields and its two files.           *)

ErrZeroColumns == "cannot create a table with zero columns"

\* The page count rounded up, plus one.
pageCountCeil(rows, perPage) == ((rows + perPage - 1) \div perPage) + 1

\* a / b of two ints, b > 0: Go rounds the quotient toward zero.
intDiv(a, b) == IF a >= 0 THEN a \div b ELSE 0 - ((0 - a) \div b)

\* pages := (rows / rowsPerPage) + 1
pageCount(rows, perPage) == intDiv(rows, perPage) + 1

\* json.Marshal(store): ColumnSet and Rows are the exported, tagged
\* fields; Name is tagged "-" and the other fields are unexported.
MarshalStore(st) == [columns |-> st.ColumnSet, rows |-> st.Rows]

\* rowsPerPage := pagemaster.PageSize() / rowSize panics for a rowSize of 0,
\* and pages := (rows / rowsPerPage) + 1 for the rowsPerPage of 0 that a
\* rowSize above the page size gives: integer divide by zero.
divideByZero(size) == size = 0 \/ PageSize \div size = 0

\* NewStore with os.MkdirAll ahead of the check of the columns.
newStoreMkdirFirst(name, rows, columns) ==
    IF Len(columns) < 1
    THEN [err |-> ErrZeroColumns, made |-> {"dir"}]
    ELSE LET size == sumSizes(columns, Len(columns))
             defaultRow == concatDefaults(columns, Len(columns))
             perPage == PageSize \div size
             st == [Name |-> name, ColumnSet |-> columns, Rows |-> rows, path |-> name,
                    rowSize |-> size, rowsPerPage |-> perPage]
         IN  IF divideByZero(size)
             THEN [err |-> ErrPanic, made |-> {"dir"}]
             ELSE [err |-> ErrNil, made |-> {"dir", "meta", "data"}, store |-> st,
                   file |-> MarshalStore(st),
                   disk |-> Initialize(EmptyFile, pageCount(rows, perPage),
                                       repeatRow(defaultRow, perPage))]

\* NewStore(path, rows, columns), name the last element of path: the
\* Store, its .meta.json file and its data file as Initialize leaves it;
\* made are the directory and the files the call created or wrote.
newStore(name, rows, columns) ==
    IF Len(columns) < 1
    THEN [err |-> ErrZeroColumns, made |-> {}]
    ELSE LET size == sumSizes(columns, Len(columns))
             defaultRow == concatDefaults(columns, Len(columns))
             perPage == PageSize \div size
             st == [Name |-> name, ColumnSet |-> columns, Rows |-> rows, path |-> name,
                    rowSize |-> size, rowsPerPage |-> perPage]
         IN  IF divideByZero(size)
             THEN [err |-> ErrPanic, made |-> {"dir"}]
             ELSE [err |-> ErrNil, made |-> {"dir", "meta", "data"}, store |-> st,
                   file |-> MarshalStore(st),
                   disk |-> Initialize(EmptyFile, pageCount(rows, perPage),
                                       repeatRow(defaultRow, perPage))]

\* OpenStore(path): the Store rebuilt from the name and the .meta.json
\* file; rowSize and rowsPerPage are computed again from the columns, and
\* the unexported path, which is not in the file and which OpenStore does
\* not set, is the empty string.
openStore(name, file) ==
    [Name |-> name, ColumnSet |-> file.columns, Rows |-> file.rows, path |-> "",
     rowSize |-> sumSizes(file.columns, Len(file.columns)),
     rowsPerPage |-> PageSize \div sumSizes(file.columns, Len(file.columns))]

\* The name of the store the table of the model lives in.
TableName == "tbl"

\* At most this many times is the table reopened.
MaxOpens == 1

\* OpenTable on the path of the table, called when Checkpoint has just
\* returned without error: OpenStore, then json.Unmarshal of the .tbl.json
\* file into the new Table.
OpenTable ==
    /\ ret.op = "Checkpoint" /\ ret.err = ErrNil
    /\ opens < MaxOpens
    /\ opens' = opens + 1
    /\ \E t \in {UnmarshalJSON(tblFile)} :
         IF t.err # ErrNil
         THEN /\ ret' = Result("OpenTable", NoPage, t.err, NoData, {})
              /\ UNCHANGED <<cache, indexer, indexerName, metadata, store>>
         ELSE /\ cache' = OpenStore(disk).cache
              /\ store' = openStore(store.Name, storeFile)
              /\ indexer' = t.Indexer
              /\ indexerName' = t.IndexerName
              /\ metadata' = t.Metadata
              /\ ret' = Result("OpenTable", NoPage, ErrNil, NoData, {})
    /\ UNCHANGED <<disk, written, tampered, faults, tblFile, cells, storeFile, thrVars, crcMemo, dbVars>>

\* The characters of the time NewTable is called at.
CreatedText == <<"t">>

\* The metadata NewTable gives a table.
newMetadata(ix) ==
    [k \in {ProjectionKey, CreatedAt} |-> IF k = ProjectionKey THEN <<ix.Name>> ELSE CreatedText]

\* The file of name n in a directory, empty when there is none.
fileOf(dir, n) == IF n \in DOMAIN dir THEN dir[n] ELSE <<>>

\* The directory with the file of name n set to text.
withFile(dir, n, text) == [m \in DOMAIN dir \cup {n} |-> IF m = n THEN text ELSE dir[m]]

\* Table.SetMetadata(key, value): saveTableMetadata writes the file
\* filepath.Join(t.store.path, t.store.Name + ".tbl.json"), which for the
\* empty path of a reopened store is a file of the working directory.
SetMetadata(key, value) ==
    /\ metadata' = [k \in DOMAIN metadata \cup {key} |-> IF k = key THEN value ELSE metadata[k]]
    /\ IF store.path = ""
       THEN /\ cwd' = withFile(cwd, store.Name,
                               saveTableMetadata(fileOf(cwd, store.Name), indexer, indexerName,
                                                 metadata'))
            /\ UNCHANGED tblFile
       ELSE /\ tblFile' = saveTableMetadata(tblFile, indexer, indexerName, metadata')
            /\ UNCHANGED cwd
    /\ ret' = Result("SetMetadata", key, ErrNil, value, {})
    /\ UNCHANGED <<disk, cache, written, tampered, faults, indexer, indexerName, cells, opens,
                   store, storeFile, thrVars, crcMemo, db, fs>>

----------------------------------------------------------------------------
(* Threads.  Each thread is in at most one call; a call advances one       *)
(* critical section of Pagemaster.lock at a time, and byte by byte where   *)
(* it copies into a page buffer.  A []byte returned by GetChunk is a slice  *)
(* of the cached page's buffer: loc[t].held says whether that buffer is    *)
(* still the one in the cache or one the cache has dropped since, which    *)
(* lives on in detached[loc[t].buf] for as long as a thread refers to it.  *)

NumThreads == 2

\* The threads work on the pages 0..MaxConcPage.
MaxConcPage == 0

Threads == 1..NumThreads

Idle == [op |-> "none", index |-> 0, row |-> NoData, held |-> "none", buf |-> 0, k |-> 0]

\* The result while no call has returned: the last step was inside a call.
Pending == Result("none", NoPage, ErrNil, NoData, {})

Call(op, index, row) == [Idle EXCEPT !.op = op, !.index = index, !.row = row]

\* The page buffer the slice of thread t points into, and the row it shows.
heldPage(c, det, l) ==
    IF l.held = "cache" THEN c[pageIndexOf(l.index)].data ELSE det[l.buf]

heldRow(c, det, l) == slice(heldPage(c, det, l), rowOffsetOf(l.index), rowSize)

\* Buffer slots no thread of S refers to.
freeSlots(l, S) == {b \in Threads : \A t \in S : ~(l[t].held = "orphan" /\ l[t].buf = b)}

\* The cache went from c to c2: the buffers of the pages that left it are
\* moved, one page after the other, to free slots of det for the threads
\* that hold slices of them.
RECURSIVE orphan(_, _, _, _)
orphan(c, c2, l, det) ==
    LET gone == {q \in DOMAIN c \ DOMAIN c2 :
                    \E t \in Threads : l[t].held = "cache" /\ pageIndexOf(l[t].index) = q}
    IN  IF gone = {} THEN [loc |-> l, detached |-> det]
        ELSE LET q == CHOOSE x \in gone : \A y \in gone : x <= y
                 b == CHOOSE x \in freeSlots(l, Threads) :
                         \A y \in freeSlots(l, Threads) : x <= y
                 l2 == [t \in Threads |->
                          IF l[t].held = "cache" /\ pageIndexOf(l[t].index) = q
                          THEN [l[t] EXCEPT !.held = "orphan", !.buf = b]
                          ELSE l[t]]
             IN  orphan(c, c2, l2, [det EXCEPT ![b] = c[q].data])

\* Thread t returns from its call: it lets go of its slice, and a detached
\* buffer nobody refers to any more is forgotten.
release(l, det, t) ==
    LET l2 == [l EXCEPT ![t] = Idle] IN
    [loc |-> l2,
     detached |-> [b \in Threads |-> IF b \in freeSlots(l2, Threads) THEN NoData ELSE det[b]]]

\* GetPage's fast path under the read lock, entered by GetRowAt and by the
\* GetRowAt of SetRows: a hit returns the cached buffer, a miss goes on to
\* LoadPage.
GetPageFast(t, call) ==
    /\ pc[t] = "idle"
    /\ lock = 0
    /\ IF pageIndexOf(call.index) \in DOMAIN cache
       THEN pc' = [pc EXCEPT ![t] = "have"] /\ loc' = [loc EXCEPT ![t] = [call EXCEPT !.held = "cache"]]
       ELSE pc' = [pc EXCEPT ![t] = "LoadPage"] /\ loc' = [loc EXCEPT ![t] = call]
    /\ ret' = Pending
    /\ UNCHANGED <<disk, cache, written, tampered, faults, tblVars, lock, detached, crcMemo, dbVars>>

\* LoadPage under the write lock, after the miss.
LoadPageSlow(t) ==
    /\ pc[t] = "LoadPage"
    /\ lock = 0
    /\ LET pg == pageIndexOf(loc[t].index) IN
       \E victim \in Victims(cache, disk, pg), wo \in EvictOutcomes(cache, disk, pg, faults) :
        LET r == loadPage(cache, disk, pg, victim, wo)
            o == orphan(cache, r.cache, loc, detached)
        IN  /\ cache' = r.cache
            /\ disk' = r.disk
            /\ faults' = faults + Failed(wo)
            /\ IF r.err # ErrNil
               THEN /\ pc' = [pc EXCEPT ![t] = "idle"]
                    /\ loc' = release(o.loc, o.detached, t).loc
                    /\ detached' = release(o.loc, o.detached, t).detached
                    /\ ret' = Result(loc[t].op, loc[t].index, r.err, NoData, r.wrote)
               ELSE /\ pc' = [pc EXCEPT ![t] = "have"]
                    /\ loc' = [o.loc EXCEPT ![t].held = "cache"]
                    /\ detached' = o.detached
                    /\ ret' = Pending
    /\ UNCHANGED <<written, tampered, tblVars, lock, crcMemo, dbVars>>

\* The caller of GetRowAt looks at the row it was returned, at any time
\* after GetChunk has returned.
Inspect(t) ==
    /\ pc[t] = "have"
    /\ loc[t].op = "GetRowAt"
    /\ ret' = Result("GetRowAt", loc[t].index, ErrNil, heldRow(cache, detached, loc[t]), {})
    /\ pc' = [pc EXCEPT ![t] = "idle"]
    /\ loc' = release(loc, detached, t).loc
    /\ detached' = release(loc, detached, t).detached
    /\ UNCHANGED <<disk, cache, written, tampered, faults, tblVars, lock, crcMemo, dbVars>>

\* A thread that is in no call can take the write lock.
canLock == lock = 0 /\ \E t \in Threads : pc[t] = "idle"

\* ClearCache that drops only the clean pages.
ClearCacheKeepsDirty ==
    /\ canLock
    /\ cache' = [p \in {q \in DOMAIN cache : cache[q].dirty} |-> cache[p]]
    /\ loc' = orphan(cache, cache', loc, detached).loc
    /\ detached' = orphan(cache, cache', loc, detached).detached
    /\ ret' = Result("ClearCache", NoPage, ErrNil, NoData, {})
    /\ UNCHANGED <<disk, written, tampered, faults, tblVars, pc, lock, crcMemo, dbVars>>

\* ClearCache: p.cache = make(map[int]*Page).  Slices handed out earlier
\* keep their buffers.
ClearCache ==
    /\ canLock
    /\ cache' = <<>>
    /\ loc' = orphan(cache, <<>>, loc, detached).loc
    /\ detached' = orphan(cache, <<>>, loc, detached).detached
    /\ ret' = Result("ClearCache", NoPage, ErrNil, NoData, {})
    /\ UNCHANGED <<disk, written, tampered, faults, tblVars, pc, lock, crcMemo, dbVars>>

\* Store.Checkpoint called while other threads may be inside calls.
CheckpointNow == canLock /\ Checkpoint

\* SetRows, after its GetRowAt: copy(rawRow[c.start:c.start+c.size], value)
\* writes the next byte of the new values into the slice it was returned,
\* holding no lock.  With every byte copied it goes on to SetRowAt.
CopyByte(t) ==
    /\ pc[t] = "have"
    /\ loc[t].op = "SetRows"
    /\ LET l == loc[t]
           at == rowOffsetOf(l.index) + l.k + 1
       IN  IF l.k = rowSize
           THEN /\ pc' = [pc EXCEPT ![t] = "SetChunk"]
                /\ loc' = [loc EXCEPT ![t].k = 0]
                /\ UNCHANGED <<cache, detached>>
           ELSE /\ pc' = pc
                /\ loc' = [loc EXCEPT ![t].k = l.k + 1]
                /\ IF l.held = "cache"
                   THEN /\ cache' = [cache EXCEPT ![pageIndexOf(l.index)].data[at] = l.row[l.k + 1]]
                        /\ detached' = detached
                   ELSE /\ detached' = [detached EXCEPT ![l.buf][at] = l.row[l.k + 1]]
                        /\ cache' = cache
    /\ ret' = Pending
    /\ UNCHANGED <<disk, written, tampered, faults, tblVars, lock, crcMemo, dbVars>>

\* SetChunk takes the write lock and gets the page, loading it on a miss.
SetChunkLock(t, call) ==
    /\ lock = 0
    /\ \/ pc[t] = "idle" /\ call.op = "SetRowAt"
       \/ pc[t] = "SetChunk" /\ call = loc[t]
    /\ LET pg == pageIndexOf(call.index) IN
       \E victim \in Victims(cache, disk, pg), wo \in EvictOutcomes(cache, disk, pg, faults) :
        LET r == getPage(cache, disk, pg, victim, wo)
            o == orphan(cache, r.cache, [loc EXCEPT ![t] = call], detached)
        IN  /\ cache' = r.cache
            /\ disk' = r.disk
            /\ faults' = faults + Failed(wo)
            /\ IF r.err # ErrNil
               THEN /\ pc' = [pc EXCEPT ![t] = "idle"]
                    /\ loc' = release(o.loc, o.detached, t).loc
                    /\ detached' = release(o.loc, o.detached, t).detached
                    /\ ret' = Result(call.op, call.index, r.err, NoData, r.wrote)
                    /\ lock' = 0
               ELSE /\ pc' = [pc EXCEPT ![t] = "copy"]
                    /\ loc' = o.loc
                    /\ detached' = o.detached
                    /\ ret' = Pending
                    /\ lock' = t
    /\ UNCHANGED <<written, tampered, tblVars, crcMemo, dbVars>>

\* copy(page.data[offset:], chunk), one byte at a time, the lock held.  The
\* chunk of SetRows is the slice rawRow; that of SetRowAt is the caller's.
SetChunkCopy(t) ==
    /\ pc[t] = "copy"
    /\ loc[t].k < rowSize
    /\ LET l == loc[t]
           chunk == IF l.op = "SetRows" THEN heldRow(cache, detached, l) ELSE l.row
       IN  cache' = [cache EXCEPT
                       ![pageIndexOf(l.index)].data[rowOffsetOf(l.index) + l.k + 1] = chunk[l.k + 1]]
    /\ loc' = [loc EXCEPT ![t].k = @ + 1]
    /\ ret' = Pending
    /\ UNCHANGED <<disk, written, tampered, faults, tblVars, pc, lock, detached, crcMemo, dbVars>>

\* page.dirty = true; the lock is released and the call returns.
SetChunkDone(t) ==
    /\ pc[t] = "copy"
    /\ loc[t].k = rowSize
    /\ cache' = [cache EXCEPT ![pageIndexOf(loc[t].index)].dirty = TRUE]
    /\ lock' = 0
    /\ pc' = [pc EXCEPT ![t] = "idle"]
    /\ loc' = release(loc, detached, t).loc
    /\ detached' = release(loc, detached, t).detached
    /\ written' = [written EXCEPT ![loc[t].index] = loc[t].row]
    /\ ret' = Result(loc[t].op, loc[t].index, ErrNil, NoData, {})
    /\ UNCHANGED <<disk, tampered, faults, tblVars, crcMemo, dbVars>>

----------------------------------------------------------------------------
\* Another program overwrites byte i of the stored payload of a page that is
\* not cached and whose record was intact.
Tamper(pageIndex, i, b) ==
    /\ pageIndex \notin DOMAIN cache
    /\ Cardinality(tampered) < MaxTampered
    /\ pageIndex \notin tampered
    /\ disk[pageIndex].crc = ChecksumIEEE(disk[pageIndex].data)
    /\ b # disk[pageIndex].data[i]
    /\ disk' = [disk EXCEPT ![pageIndex].data[i] = b]
    /\ tampered' = tampered \cup {pageIndex}
    /\ ret' = Result("Tamper", pageIndex, ErrNil, NoData, {})
    /\ UNCHANGED <<cache, written, faults, tblVars, thrVars, crcMemo, dbVars>>

----------------------------------------------------------------------------
(* Initial state: NewTable has returned.  NewStore ran                     *)
(* Pagemaster.Initialize(pages, defaultPage), the cache is empty.          *)

\* Pages that differ from a page of S in one byte, tampered with.
tamperedPages(S) ==
    {[p EXCEPT ![i] = b] : p \in S, i \in 1..PageSize, b \in TamperBytes}

\* Pages left by a payload write of page q that stopped after n bytes over page p.
partialPages(S) ==
    {[i \in 1..PageSize |-> IF i <= n THEN q[i] ELSE p[i]] : p \in S, q \in S, n \in 0..MaxPartial}

\* Pages made of rows of S.
RECURSIVE rowPages(_, _)
rowPages(S, n) ==
    IF n = 0 THEN {<<>>} ELSE {p \o row : p \in rowPages(S, n - 1), row \in S}

KnownPages ==
    LET rowed == {Pad(p) : p \in rowPages({DefaultRow} \cup RowVals, rowsPerPage)}
        base == {Pad(defaultPage)} \cup {Pad(p) : p \in PageVals} \cup rowed
    IN  base \cup partialPages(base) \cup tamperedPages(base)

\* NewTable with the indexer ix has returned: NewStore ran
\* Pagemaster.Initialize(pages, defaultPage), saveTableMetadata wrote the
\* .tbl.json file, the cache is empty and no thread is in a call.  known
\* are the pages whose checksums are tabulated and nf the writes counted as
\* failed already.
InitWith(ix, known, nf, r) ==
    /\ crcMemo = [p \in known |-> crc32(p)]
    /\ disk = newStore(TableName, Size(ix), ColumnSet).disk
    /\ cache = <<>>
    /\ ret = r
    /\ written = [i \in 0..(Rows - 1) |-> DefaultRow]
    /\ tampered = {}
    /\ faults = nf
    /\ indexer = ix
    /\ indexerName = ix.Name
    /\ metadata = newMetadata(ix)
    /\ tblFile = saveTableMetadata(<<>>, ix, ix.Name, newMetadata(ix))
    /\ cells = [l \in Locations |-> Project(DefaultRow, columnProj)]
    /\ opens = 0
    /\ store = newStore(TableName, Size(ix), ColumnSet).store
    /\ storeFile = newStore(TableName, Size(ix), ColumnSet).file
    /\ pc = [t \in Threads |-> "idle"]
    /\ loc = [t \in Threads |-> Idle]
    /\ lock = 0
    /\ detached = [b \in Threads |-> NoData]
    /\ cwd = Nothing
    /\ db = NewDatabase
    /\ fs = Nothing

InitTable(ix, known, nf) == InitWith(ix, known, nf, Result("NewTable", NoPage, ErrNil, NoData, {}))

\* The table of the model: a row-major cylindrical equirectangular grid.
Indexer == NewCylindricalEquirectangularIndexer(0, Width, Height, TRUE)

\* Runs in which up to MaxFaults writes to the data file fail.
Init == InitTable(Indexer, KnownPages, 0)

\* Runs in which no write to the data file fails.
InitReliable == InitTable(Indexer, KnownPages, MaxFaults)

Next ==
    \/ \E p \in PageArgs : LoadPage(p)
    \/ \E p \in PageArgs : GetPage(p)
    \/ \E p \in PageArgs, off \in RowOffsets : GetChunk(p, off, rowSize)
    \/ \E p \in PageArgs, page \in PageVals : SetPage(p, page)
    \/ \E p \in PageArgs, chunk \in ChunkVals : SetChunk(p, ChunkOffset, chunk)
    \/ \E p \in PageArgs : FlushPage(p)
    \/ FlushAllPages
    \/ ClearCache

Spec == Init /\ [][Next]_vars

\* Row indexes the Store's callers use: the first row of each of the first
\* pages, more pages than the cache holds.
RowArgs == {q * rowsPerPage : q \in 0..MaxPageArg} \cap (0..(Rows - 1))

\* The Pagemaster and the Store read and write while another program
\* changes bytes of the data file.
NextTamper ==
    \/ \E p \in PageArgs \cap PageIds, i \in 1..PageSize, b \in TamperBytes : Tamper(p, i, b)
    \/ \E p \in PageArgs : LoadPage(p)
    \/ \E p \in PageArgs : GetPage(p)
    \/ \E p \in PageArgs, off \in RowOffsets : GetChunk(p, off, rowSize)
    \/ \E i \in RowArgs : GetRowAt(i)
    \/ \E p \in PageArgs, chunk \in ChunkVals : SetChunk(p, ChunkOffset, chunk)
    \/ FlushAllPages
    \/ ClearCache

SpecTamper == InitReliable /\ [][NextTamper]_vars

----------------------------------------------------------------------------
(* Properties of the Pagemaster's calls.                                   *)

\* The calls that reach loadPage, and so can unload a page.
LoadCalls == {"LoadPage", "GetPage", "GetChunk", "SetPage", "SetChunk"}

\* The record writePage leaves in the file for a payload.
recordOf(page) == [crc |-> ChecksumIEEE(Pad(page)), data |-> Pad(page)]

(* C4: eviction never loses a write.  Whenever a call on the load path     *)
(* removes a dirty page from the cache, whatever the outcome of the        *)
(* write-back, the file then holds that page's payload under a matching    *)
(* checksum.                                                               *)
C4_EvictionKeepsWrite ==
    [][ret'.op \in LoadCalls =>
         \A p \in DOMAIN cache :
            (cache[p].dirty /\ p \notin DOMAIN cache') => disk'[p] = recordOf(cache[p].data)]_vars

(* C8: cache bound.  In every reachable state the cache holds at most      *)
(* MaxPagesInCache pages.                                                  *)
C8_CacheBound == Cardinality(DOMAIN cache) <= MaxPagesInCache

(* C9: FlushPage(p) on a cached page writes its payload under a recomputed *)
(* checksum and, when the write succeeds, leaves the page clean; when the  *)
(* write fails the dirty flag is unchanged; when p is not cached nothing   *)
(* is written and no error is returned.                                    *)
C9_FlushPage ==
    [][ret'.op = "FlushPage" =>
         LET p == ret'.index IN
         IF p \in DOMAIN cache
         THEN /\ ret'.wrote = {p}
              /\ ret'.err = ErrNil =>
                    disk'[p] = recordOf(cache[p].data) /\ ~cache'[p].dirty
              /\ ret'.err # ErrNil => cache'[p].dirty = cache[p].dirty
              /\ cache'[p].data = cache[p].data
         ELSE ret'.err = ErrNil /\ ret'.wrote = {} /\ disk' = disk /\ cache' = cache]_vars

(* C11: LoadPage(p) always reads page p from the file and verifies its    *)
(* checksum, cached or not: it fails exactly when readPage of the record   *)
(* fails, and the bytes it returns are the payload the file holds for p.   *)
C11_LoadPageReadsDisk ==
    [][ret'.op = "LoadPage" =>
         /\ ret'.err = readPage(disk', ret'.index).err
         /\ ret'.val = readPage(disk', ret'.index).data]_vars

(* C12: ClearCache removes every cache entry and writes nothing: the file  *)
(* is unchanged and no page is cached afterwards, and the GetPage(p) that  *)
(* follows it returns what readPage finds in the file for p, so a change   *)
(* that was only in the cache is gone.                                     *)
C12_ClearCache ==
    [][/\ ret'.op = "ClearCache" => cache' = <<>> /\ disk' = disk
       /\ (ret.op = "ClearCache" /\ ret'.op = "GetPage") =>
              /\ disk' = disk
              /\ ret'.err = readPage(disk, ret'.index).err
              /\ ret'.val = readPage(disk, ret'.index).data]_vars

\* ClearCache has just returned over a file that earlier calls have written.
C12_Witness ==
    ret.op = "ClearCache" /\ cache = <<>> /\ \E p \in PageIds : disk[p].data # Pad(defaultPage)

----------------------------------------------------------------------------
(* One caller sets and gets rows of a Store and checkpoints it, while up   *)
(* to MaxFaults writes to the data file fail.                              *)

NextStore ==
    \/ \E i \in RowArgs, row \in RowVals : SetRowAt(i, row)
    \/ \E i \in RowArgs : GetRowAt(i)
    \/ Checkpoint

SpecStore == Init /\ [][NextStore]_vars

(* C1: read-your-writes on one Store.  GetRowAt(i), for i in [0, Rows),    *)
(* returns without error the bytes of the most recent successful           *)
(* SetRowAt(i, row), or the default row if row i was never set.            *)
C1_ReadYourWrites ==
    (ret.op = "GetRowAt" /\ ret.index \in 0..(Rows - 1)) =>
        (ret.err = ErrNil /\ ret.val = written[ret.index])

(* C2: Store durability.  When Checkpoint has returned without error, a    *)
(* Store opened afresh over the same file returns, for every row index in  *)
(* [0, Rows), the last bytes set for that row, or the default row.         *)
C2_CheckpointDurable ==
    (ret.op = "Checkpoint" /\ ret.err = ErrNil) =>
        \A i \in 0..(Rows - 1) :
            LET st == OpenStore(disk)
                r == getRowAt(st.cache, st.disk, i, pageIndexOf(i), WriteDone)
            IN  r.err = ErrNil /\ r.data = written[i]

----------------------------------------------------------------------------
(* One caller sets and gets rows of a Table by location, checkpoints it    *)
(* and reopens it.  The table is created with any of the grid indexers.    *)

Indexers ==
    {NewProjectionlessIndexer(Width, Height, TRUE),
     NewCylindricalEquirectangularIndexer(0, Width, Height, TRUE)}

\* Pages made of default rows and of the rows written by location.
TablePages ==
    {Pad(p) : p \in rowPages({a \o b : a \in {<<3>>} \cup {valueOf(l, "col1") : l \in Locations},
                                       b \in {<<6>>} \cup {valueOf(l, "col2") : l \in Locations}},
                             rowsPerPage)}

InitTables == \E ix \in Indexers : InitTable(ix, TablePages, MaxFaults)

\* The callers pass one location per call, out of the first two columns
\* and rows of the grid.
LocationLists == {<<l>> : l \in {l \in Locations : l.X <= 1 /\ l.Y <= 1}}

\* The names of all columns, in order.
AllColumns == <<"col1", "col2">>

NextTable ==
    \/ \E ls \in LocationLists : SetRows(AllColumns, ls)
    \/ \E ls \in LocationLists : GetRows(AllColumns, ls)
    \/ Checkpoint
    \/ OpenTable

SpecTable == InitTables /\ [][NextTable]_vars

(* C3: Table durability across reopen, addressed by location.  On a table  *)
(* reopened with OpenTable after a successful Checkpoint, GetRows at a     *)
(* GridLocation returns the values last written at that same location     *)
(* (the default values if none were).                                      *)
C3_ReopenByLocation ==
    (/\ ret.op = "GetRows" /\ opens > 0
     /\ ret.columns = AllColumns) =>
        /\ ret.err = ErrNil
        /\ ret.val = [i \in DOMAIN ret.index |-> cells[ret.index[i]]]

----------------------------------------------------------------------------
(* Threads call GetRowAt, SetRowAt and SetRows on rows of the first pages, *)
(* checkpoint the store and clear the cache, in any interleaving.          *)

\* The row indexes the threads work on: the first row of each page.
ConcRows == {q * rowsPerPage : q \in 0..MaxConcPage}

\* The rows the threads write with SetRowAt.
ConcVals == {<<1, 2>>}

\* The locations the threads write with SetRows: those of ConcRows.
ConcLocations == {l \in Locations : ToIndex(Indexer, l) \in ConcRows}

\* The row of the values written at a location.
rowAt(l) == copyValues(DefaultRow, columnProj, valuesAt(l), Len(columnProj))

\* Thread 1 writes; the other threads read, checkpoint and clear the cache.
Writers == {1}

Readers == Threads \ Writers

NextConc ==
    \/ \E t \in Readers, i \in ConcRows : GetPageFast(t, Call("GetRowAt", i, NoData))
    \/ \E t \in Writers, l \in ConcLocations :
            GetPageFast(t, Call("SetRows", ToIndex(indexer, l), rowAt(l)))
    \/ \E t \in Threads : LoadPageSlow(t)
    \/ \E t \in Threads : Inspect(t)
    \/ \E t \in Threads : CopyByte(t)
    \/ \E t \in Writers, i \in ConcRows, row \in ConcVals :
            SetChunkLock(t, Call("SetRowAt", i, row))
    \/ \E t \in Threads : SetChunkLock(t, loc[t])
    \/ \E t \in Threads : SetChunkCopy(t)
    \/ \E t \in Threads : SetChunkDone(t)
    \/ CheckpointNow
    \/ ClearCache

SpecConc == Init /\ [][NextConc]_vars

(* C5: cache-hit equals cache-miss.  Whenever no thread is inside a        *)
(* critical section of the write lock, each cached page whose dirty flag   *)
(* is clear has the payload stored for it in the file, under a matching    *)
(* checksum: GetPage returns the same bytes from the cache as from a fresh *)
(* read.                                                                   *)
C5_CleanEqualsDisk ==
    lock = 0 =>
        \A p \in DOMAIN cache :
            ~cache[p].dirty =>
                /\ readPage(disk, p).err = ErrNil
                /\ readPage(disk, p).data = cache[p].data

\* Every row a write can leave behind once it is complete.
WholeRows == {DefaultRow} \cup ConcVals \cup {rowAt(l) : l \in ConcLocations}

(* C7: no torn rows under concurrency.  The bytes a reader finds in the    *)
(* row GetRowAt returned to it, whenever it looks at them, are entirely    *)
(* the pre-image or entirely the post-image of a write: one of the rows    *)
(* the writers set, or the default row, never a mixture.                   *)
C7_NoTornRows ==
    (ret.op = "GetRowAt" /\ ret.err = ErrNil) => ret.val \in WholeRows

(* C10: FlushAllPages partial-failure accounting.  A step of FlushAllPages *)
(* (Checkpoint) writes only pages that were dirty; if it returns no error  *)
(* it has written every dirty page, and afterwards no cached page is dirty *)
(* and every cached page equals its payload in the file; if it returns an  *)
(* error, every page written before the failing one is clean and stored,   *)
(* and the failing page and the dirty pages not written are still dirty.   *)
C10_FlushAllAccounting ==
    [][ret'.op \in {"FlushAllPages", "Checkpoint"} =>
         LET dirty == {p \in DOMAIN cache : cache[p].dirty} IN
         /\ ret'.wrote \subseteq dirty
         /\ DOMAIN cache' = DOMAIN cache
         /\ \A p \in DOMAIN cache : cache'[p].data = cache[p].data
         /\ ret'.err = ErrNil =>
                /\ ret'.wrote = dirty
                /\ \A p \in DOMAIN cache' :
                      ~cache'[p].dirty /\ disk'[p] = recordOf(cache'[p].data)
         /\ ret'.err # ErrNil =>
                \E f \in ret'.wrote :
                    /\ \A p \in ret'.wrote \ {f} :
                          ~cache'[p].dirty /\ disk'[p] = recordOf(cache'[p].data)
                    /\ \A p \in (dirty \ ret'.wrote) \cup {f} : cache'[p].dirty
                    /\ \A p \in DOMAIN cache \ dirty : cache'[p] = cache[p]]_vars

\* The calls that return the bytes of a page or of a part of it.
ReadCalls == {"LoadPage", "GetPage", "GetChunk", "GetRowAt"}

\* The page a call of ReadCalls asked for.
pageRead(r) == IF r.op = "GetRowAt" THEN pageIndexOf(r.index) ELSE r.index

----------------------------------------------------------------------------
(* Stores of any schema: one caller creates stores, reopens the last one,  *)
(* reads its rows and asks it for projections.  No write to a file fails.  *)

\* ---------------------------------------------------------------------
\* SetRows and GetRows on some of the columns and on several locations,
\* some of which the call fails on.
\* ---------------------------------------------------------------------

\* A location of a type the grid indexers do not take, and one beyond the
\* grid, whose row lies beyond the end of the data file.
RingLocation == [Ring |-> 1]

FarLocation == [X |-> 0, Y |-> Height + 2]

Corner == [X |-> 0, Y |-> 0]

Middle == [X |-> 1, Y |-> 1]

Third == [X |-> 2, Y |-> 0]

\* The lists of locations of the calls: of the grid, or with a location
\* the call fails on.
RowLists ==
    { <<Corner>>, <<Middle>>, <<Corner, Middle>>, <<RingLocation, Corner>>,
      <<Middle, RingLocation, Corner>>, <<Corner, FarLocation, Middle>> }

\* The columns SetRows and GetRows are called with.
SetColumns == {AllColumns, <<"col2">>, <<"col1">>, <<"nope">>, <<"col2", "nope">>}

GetColumns == {AllColumns, <<"col1">>, <<"nope", "col1">>}

InitRows == InitTable(NewProjectionlessIndexer(Width, Height, TRUE), TablePages, MaxFaults)

NextRows ==
    \/ \E columns \in SetColumns, ls \in RowLists : SetRows(columns, ls)
    \/ \E columns \in GetColumns, ls \in RowLists : GetRows(columns, ls)
    \/ \E columns \in GetColumns : Projection(columns)

SpecRows == InitRows /\ [][NextRows]_vars

\* The same calls on all columns, with writes of the data file that fail.
FaultyLists == {<<Corner>>, <<Middle>>, <<Third>>, <<Corner, FarLocation, Middle>>}

InitFaultyRows == InitTable(NewProjectionlessIndexer(Width, Height, TRUE), TablePages, 0)

NextFaultyRows ==
    \/ \E ls \in FaultyLists : SetRows(AllColumns, ls)
    \/ \E ls \in FaultyLists : Len(ls) = 1 /\ GetRows(AllColumns, ls)

SpecFaultyRows == InitFaultyRows /\ [][NextFaultyRows]_vars

\* The row of an index as the store holds it: in the cached page, or in the
\* page of the file when the page is not cached.
storedRow(c, d, index) ==
    LET pg == pageIndexOf(index) IN
    slice(IF pg \in DOMAIN c THEN c[pg].data ELSE d[pg].data, rowOffsetOf(index),
          store.rowSize)

\* The rows of the store.
RowIndexes == 0..(store.Rows - 1)

\* The projection a call on these columns works with.
projOf(columns) == projection(store, columns, Len(columns)).proj

\* The rows of the first n locations of a list.
indexesOf(locations, n) == {ToIndex(indexer, locations[i]) : i \in 1..n}

\* The values a call on these columns writes at a location.
valuesOf(l, columns) == [j \in DOMAIN columns |-> valueOf(l, columns[j])]

\* The columns of the schema a call on these columns leaves out.
notProjected(columns) ==
    {k \in DOMAIN store.ColumnSet : \A j \in DOMAIN columns : columns[j] # store.ColumnSet[k].Name}

\* The bytes of column k of a row.
columnBytes(row, k) == Project(row, <<initColumnMap(store.ColumnSet)[k]>>)[1]

\* C13: after a SetRows that succeeds, the projected columns of the row
\* of every location hold the given values, the other columns of that row
\* hold the bytes they held before, and every row that is not the row of a
\* given location is as it was.
C13_SetRowsFrame ==
    [][(ret'.op = "SetRows" /\ ret'.err = ErrNil) =>
         LET locations == ret'.index
             columns == ret'.columns
         IN  /\ \A i \in DOMAIN locations :
                   /\ Project(storedRow(cache', disk', ToIndex(indexer, locations[i])),
                              projOf(columns)) = valuesOf(locations[i], columns)
                   /\ \A k \in notProjected(columns) :
                         columnBytes(storedRow(cache', disk', ToIndex(indexer, locations[i])), k)
                           = columnBytes(storedRow(cache, disk, ToIndex(indexer, locations[i])), k)
             /\ \A r \in RowIndexes \ indexesOf(locations, Len(locations)) :
                   storedRow(cache', disk', r) = storedRow(cache, disk, r)]_vars

\* The error of the location a call stopped at: that of ToIndex, or that
\* of reading the page of its row.
errorAt(d, l) ==
    IF toIndex(indexer, l).err # ErrNil THEN toIndex(indexer, l).err
    ELSE readPage(d, pageIndexOf(ToIndex(indexer, l))).err

\* C14: a SetRows that fails returns the number n of the locations before
\* the one it fails at, with the error of that one; the rows of the first
\* n locations are written, and the row of no location from the failing
\* one on is modified; a SetRows that succeeds returns the number of
\* locations.
C14_SetRowsCount ==
    [][(ret'.op = "SetRows" /\ ret'.err # ErrColumnNotFound) =>
         LET locations == ret'.index
             columns == ret'.columns
             n == ret'.val
         IN  /\ ret'.err = ErrNil => n = Len(locations)
             /\ ret'.err # ErrNil =>
                   /\ n < Len(locations)
                   /\ ret'.err = errorAt(disk', locations[n + 1])
             /\ \A i \in 1..n :
                   Project(storedRow(cache', disk', ToIndex(indexer, locations[i])),
                           projOf(columns)) = valuesOf(locations[i], columns)
             /\ \A i \in (n + 1)..Len(locations) :
                   (/\ IsGrid(locations[i])
                    /\ ToIndex(indexer, locations[i]) \in RowIndexes \ indexesOf(locations, n)) =>
                       storedRow(cache', disk', ToIndex(indexer, locations[i]))
                         = storedRow(cache, disk, ToIndex(indexer, locations[i]))]_vars

\* The names of a list that are not columns of the store.
unknownAt(columns) ==
    {j \in DOMAIN columns : \A k \in DOMAIN store.ColumnSet : store.ColumnSet[k].Name # columns[j]}

\* C15: Projection, GetRows and SetRows with a name that is not a column
\* fail with the ColumnNotFoundError of the store and of the first such
\* name; SetRows returns 0, and the cache and the file are as they were.
C15_UnknownColumn ==
    [][(ret'.op \in {"Projection", "GetRows", "SetRows"} /\ unknownAt(ret'.columns) # {}) =>
         LET columns == ret'.columns
             first == CHOOSE j \in unknownAt(columns) : \A k \in unknownAt(columns) : j <= k
             e == [Store |-> store.Name, Column |-> columns[first]]
         IN  /\ ret'.err = ErrColumnNotFound
             /\ ret'.detail = e
             /\ ret'.op = "SetRows" => ret'.val = 0
             /\ cache' = cache /\ disk' = disk /\ store' = store]_vars

\* C15 witness: a SetRows with a column and an unknown name failed on a
\* store that holds written rows.
C15_Witness ==
    /\ ret.op = "SetRows" /\ ret.err = ErrColumnNotFound
    /\ ret.columns = <<"col2", "nope">> /\ Len(ret.index) > 1
    /\ \E r \in RowIndexes : storedRow(cache, disk, r) # DefaultRow

\* The columns the schemas are made of.
ColA == [Name |-> "a", Type |-> "ColumnTypeUint8", Default |-> <<3>>]
ColB == [Name |-> "b", Type |-> "ColumnTypeInt16", Default |-> <<6, 7>>]
ColC == [Name |-> "c", Type |-> "ColumnTypeInt8", Default |-> <<9>>]

\* The schemas NewStore is called with: none is wider than a page.
Schemas ==
    {s \in {<<>>, <<ColA>>, <<ColB>>, <<ColA, ColB>>, <<ColB, ColA>>, <<ColA, ColB, ColC>>} :
        sumSizes(s, Len(s)) <= PageSize}

\* Stores have 0..MaxRows rows.
MaxRows == 4

StoreNames == {"s1", "s2"}

\* Projection is asked for up to MaxNames names.
MaxNames == 2

ColumnNames == {"a", "b", "c", "nope"}

NameLists == UNION {[1..n -> ColumnNames] : n \in 0..MaxNames}

\* NewStore(path, rows, columns) on a path that holds no store yet.
NewStore(name, rows, columns) ==
    LET r == newStore(name, rows, columns) IN
    IF r.err # ErrNil
    THEN /\ ret' = Result("NewStore", rows, r.err, NoData, {})
         /\ UNCHANGED <<disk, cache, written, tampered, faults, tblVars, thrVars, crcMemo, dbVars>>
    ELSE /\ store' = r.store
         /\ storeFile' = r.file
         /\ disk' = r.disk
         /\ cache' = <<>>
         /\ ret' = Result("NewStore", rows, ErrNil, NoData, DOMAIN r.disk)
         /\ UNCHANGED <<written, tampered, faults, indexer, indexerName, metadata, tblFile,
                   cells, opens, thrVars,
                        crcMemo, dbVars>>

\* OpenStore(path) on the path of the store: a new Pagemaster over the data
\* file, and the Store's fields from the .meta.json file.
ReopenStore ==
    /\ store' = openStore(store.Name, storeFile)
    /\ cache' = OpenStore(disk).cache
    /\ ret' = Result("OpenStore", NoPage, ErrNil, NoData, {})
    /\ UNCHANGED <<disk, written, tampered, faults, indexer, indexerName, metadata, tblFile,
                   cells, opens, storeFile,
                   thrVars, crcMemo, dbVars>>

\* The pages NewStore fills the data files with.
SchemaPages ==
    {Pad(repeatRow(concatDefaults(s, Len(s)), PageSize \div sumSizes(s, Len(s)))) :
        s \in Schemas \ {<<>>}}

InitSchema == InitTable(Indexer, SchemaPages \cup {Pad(defaultPage)}, MaxFaults)

NextSchema ==
    \/ \E name \in StoreNames, rows \in 0..MaxRows, columns \in Schemas :
            NewStore(name, rows, columns)
    \/ ReopenStore
    \/ \E index \in 0..(MaxRows - 1) : index < store.Rows /\ GetRowAt(index)
    \/ \E columns \in NameLists : Projection(columns)

SpecSchema == InitSchema /\ [][NextSchema]_vars

\* The number of bytes of the columns before column i of a schema.
RECURSIVE bytesBefore(_, _)
bytesBefore(cols, i) ==
    IF i <= 1 THEN 0 ELSE bytesBefore(cols, i - 1) + ColumnTypeSize(cols[i - 1].Type)

(* C16: projection layout.  For a schema with unique column names and any *)
(* list of requested names, duplicates included, Projection returns one    *)
(* triple per name in request order: index is the column's position in the *)
(* schema, start the sum of the sizes of the columns before it and size    *)
(* the column's size.  Applied to a row it yields as many values, the k-th *)
(* being row[start : start+size] (for the default row: the Default of the  *)
(* k-th requested column), and FilterColumns gives the schema's columns at *)
(* those indices in the same order.                                        *)
C16_ProjectionLayout ==
    (ret.op = "Projection" /\ ret.err = ErrNil) =>
        LET cols == store.ColumnSet
            names == ret.columns
            proj == ret.val
            row == concatDefaults(cols, Len(cols))
        IN  /\ Len(proj) = Len(names)
            /\ Len(Project(row, proj)) = Len(names)
            /\ \A k \in DOMAIN names :
                  \E i \in DOMAIN cols :
                     /\ cols[i].Name = names[k]
                     /\ proj[k] = [index |-> i - 1, start |-> bytesBefore(cols, i),
                                   size |-> ColumnTypeSize(cols[i].Type)]
                     /\ Project(row, proj)[k] = cols[i].Default
                     /\ FilterColumns(store, proj)[k] = cols[i]

\* Projection returned the triples of two columns asked for against the
\* order of the schema.
C16_Witness ==
    /\ ret.op = "Projection" /\ ret.err = ErrNil
    /\ Len(ret.columns) = 2 /\ ret.val[1].start > ret.val[2].start

\* Every row of the store, read through an empty cache from the data file,
\* is made of the columns' Default bytes in schema order.
DefaultFilled ==
    \A i \in 0..(store.Rows - 1) :
        LET r == getRowAt(<<>>, disk, i, 0, WriteDone)
            cols == store.ColumnSet
        IN  /\ r.err = ErrNil
            /\ Len(r.data) = bytesBefore(cols, Len(cols) + 1)
            /\ \A k \in DOMAIN cols :
                  slice(r.data, bytesBefore(cols, k), ColumnTypeSize(cols[k].Type))
                      = cols[k].Default

(* C17: default fill and reopen equivalence.  Right after NewStore, and    *)
(* again after OpenStore, GetRowAt(i) returns for every row i of the store *)
(* the columns' Default bytes in schema order; OpenStore yields the Name,  *)
(* Rows, rowSize and rowsPerPage NewStore computed and neither reads nor   *)
(* writes the data file.                                                   *)
C17_DefaultFill ==
    [][/\ (ret'.op \in {"NewStore", "OpenStore"} /\ ret'.err = ErrNil) => DefaultFilled'
       /\ ret'.op = "OpenStore" =>
              /\ store'.Name = store.Name /\ store'.Rows = store.Rows
              /\ store'.rowSize = store.rowSize /\ store'.rowsPerPage = store.rowsPerPage
              /\ store'.ColumnSet = store.ColumnSet
              /\ disk' = disk /\ cache' = <<>>
       /\ ret'.op = "GetRowAt" =>
              /\ ret'.err = ErrNil
              /\ ret'.val = concatDefaults(store.ColumnSet, Len(store.ColumnSet))]_vars

\* A store of several columns and more rows than fit one page has been
\* reopened.
C17_Witness ==
    /\ ret.op = "OpenStore"
    /\ Len(store.ColumnSet) > 1 /\ store.Rows > store.rowsPerPage /\ store.rowsPerPage > 1

\* ceil(a / b)
ceilDiv(a, b) == (a + b - 1) \div b

(* C18 as stated: the data file NewStore writes holds exactly              *)
(* ceil(Rows / rowsPerPage) + 1 page records.                              *)
C18_PagesCeilPlusOne ==
    (ret.op = "NewStore" /\ ret.err = ErrNil) =>
        Cardinality(DOMAIN disk) = ceilDiv(store.Rows, store.rowsPerPage) + 1

(* C18 amended: the data file NewStore writes holds exactly                *)
(* floor(Rows / rowsPerPage) + 1 page records: one more than               *)
(* ceil(Rows / rowsPerPage) when Rows is a multiple of rowsPerPage, and    *)
(* exactly ceil(Rows / rowsPerPage) when it is not.                        *)
C18_PagesFloorPlusOne ==
    (ret.op = "NewStore" /\ ret.err = ErrNil) =>
        /\ Cardinality(DOMAIN disk) = (store.Rows \div store.rowsPerPage) + 1
        /\ DOMAIN disk = 0..(store.Rows \div store.rowsPerPage)
        /\ store.Rows % store.rowsPerPage = 0 =>
              Cardinality(DOMAIN disk) = ceilDiv(store.Rows, store.rowsPerPage) + 1
        /\ store.Rows % store.rowsPerPage # 0 =>
              Cardinality(DOMAIN disk) = ceilDiv(store.Rows, store.rowsPerPage)

\* NewStore has created a store whose rows do not fill its pages evenly.
C18_Witness ==
    /\ ret.op = "NewStore" /\ ret.err = ErrNil
    /\ store.Rows > store.rowsPerPage /\ store.Rows % store.rowsPerPage # 0

----------------------------------------------------------------------------
(* The table file: NewTable with any of the four indexers, SetMetadata     *)
(* and OpenTable.                                                          *)

\* The keys and the values SetMetadata is called with: a new key, a key of
\* NewTable, and values of three lengths.
MetaKeys == {"k1", "k2", CreatedAt}

MetaValues == {<<>>, <<"x">>, <<"x", "y">>}

\* HEALPix order 0 of the ring scheme.
HealpixOrder == 0

\* The cutoff parallels of the Mercator grid, in degrees.
NorthCutoff == 80

SouthCutoff == 0 - 80

AllIndexers ==
    {NewProjectionlessIndexer(Width, Height, TRUE),
     NewMercatorCutoffIndexer(NorthCutoff, SouthCutoff, Width, Height, TRUE),
     NewCylindricalEquirectangularIndexer(0, Width, Height, TRUE),
     NewFlatHealpixIndexer(HealpixOrder, "ring")}

InitMeta == \E ix \in AllIndexers : InitTable(ix, {Pad(defaultPage)}, MaxFaults)

NextMeta ==
    \/ \E key \in MetaKeys, value \in MetaValues : SetMetadata(key, value)
    \/ Checkpoint
    \/ OpenTable

SpecMeta == InitMeta /\ [][NextMeta]_vars

\* C19: the Table OpenTable returns has the indexer name and the indexer
\* type of the table that was saved, its indexer's Name() is that name,
\* and its indexer's Size() is the Size() of the saved table's indexer and
\* the number of rows of the store.
C19_IndexerSurvivesReopen ==
    [][(ret'.op = "OpenTable" /\ ret'.err = ErrNil) =>
         /\ indexerName' = indexerName
         /\ indexer'.Name = indexer.Name /\ DOMAIN indexer' = DOMAIN indexer
         /\ indexer'.Name = indexerName'
         /\ Size(indexer') = Size(indexer)
         /\ Size(indexer') = store'.Rows]_vars

\* C20: after NewTable and any calls of SetMetadata, OpenTable succeeds
\* and the Table it returns has the metadata of the table in memory: the
\* file holds the text of the latest metadata and nothing else.
C20_MetadataPersists ==
    /\ tblFile = MarshalTable(indexer, indexerName, metadata)
    /\ ret.op = "OpenTable" => ret.err = ErrNil
    /\ UnmarshalJSON(tblFile).err = ErrNil
    /\ UnmarshalJSON(tblFile).err = ErrNil => UnmarshalJSON(tblFile).Metadata = metadata

(***************************************************************************)
(* The indexers on their own: an indexer is constructed and asked for the  *)
(* index of locations of every variant.                                    *)
(***************************************************************************)

\* A value whose type is no Location variant: a slice of locations.
SliceLocation(ls) == [Slice |-> ls]

\* The other pair of cutoffs of TestMercatorCutoffIndexer, in degrees.
NorthCutoffB == 60

SouthCutoffB == 0 - 56

\* The cutoffs the Mercator indexer is constructed with: two pairs with
\* the north above the south, one with the two equal, one with the north
\* below the south.
CutoffPairs ==
    {<<NorthCutoff, SouthCutoff>>, <<NorthCutoffB, SouthCutoffB>>, <<0, 0>>,
     <<SouthCutoff, NorthCutoff>>}

\* The sizes of the grids: width and height.
GridSizes == {<<Width, Height>>, <<Height, Width>>, <<Width + 1, Height + 1>>}

\* The latitudes and longitudes asked for: the poles, the cutoffs and the
\* degrees next to them, and the corners and the middle of the map.
Latitudes ==
    {0 - (Pi \div 2), SouthCutoff - 1, SouthCutoff, SouthCutoff + 1, SouthCutoffB - 1, SouthCutoffB,
     0 - 45, 0 - 1, 0, 1, 45, NorthCutoffB, NorthCutoffB + 1, NorthCutoff - 1, NorthCutoff,
     NorthCutoff + 1, Pi \div 2}

Longitudes == {0 - Pi, 0 - (Pi \div 2), 0 - 1, 0, 1, Pi \div 2, Pi - 1, Pi}

UnitVectors ==
    {RectangularLocation(1, 0, 0), RectangularLocation(0, 1, 0), RectangularLocation(0, 0, 1),
     RectangularLocation(0 - 1, 0, 0), RectangularLocation(0, 0 - 1, 0)}

\* The locations asked for of a grid of w by h cells.
GridInputs(w, h) ==
    {IndexLocation(i) : i \in 0..(w * h - 1)}
        \cup {[X |-> x, Y |-> y] : x \in 0..(w - 1), y \in 0..(h - 1)}
        \cup {[Ring |-> 1], NestLocation(2), UniqueLocation(5),
              SliceLocation(<<[X |-> 0, Y |-> 0]>>)}

\* The locations asked for of a projected grid.
SphereInputs ==
    {SphericalLocation(lat, lon) : lat \in Latitudes, lon \in Longitudes}
        \cup {ProjectedLocation(x, 0) : x \in Longitudes}
        \cup UnitVectors

\* The locations an indexer is asked for: the healpix indexer is asked for
\* pixel locations only.
IndexInputs(ix) ==
    CASE ix.Name = "projectionless" -> GridInputs(ix.Width, ix.Height) \cup SphereInputs
      [] ix.Name = "flat-healpix" ->
            {l \in GridInputs(1, 1) \cup {UniqueLocation(4 * (4 ^ ix.Order) + 1)} :
                 /\ LocationType(l) = "RingLocation" => (ix.Scheme = "ring" \/ ix.Order = 0)
                 /\ LocationType(l) \in {"NestLocation", "UniqueLocation"} =>
                        (ix.Scheme = "nest" \/ ix.Order = 0)}
      [] OTHER -> GridInputs(ix.grid.Width, ix.grid.Height) \cup SphereInputs

IndexResult(op, l, r) ==
    [op |-> op, loc |-> l, err |-> r.err, index |-> r.index, detail |-> r.detail]

\* indexer.ToIndex(l)
CallToIndex(l) ==
    /\ ret' = IndexResult("ToIndex", l, toIndex(indexer, l))
    /\ UNCHANGED <<disk, cache, written, tampered, faults, tblVars, thrVars, crcMemo, dbVars>>

\* What a constructor returns.
constructed(op, args, ix) ==
    /\ indexer' = ix
    /\ ret' = IndexResult(op, args, found(NoPage))
    /\ UNCHANGED <<disk, cache, written, tampered, faults, indexerName, metadata, tblFile, cells,
                   opens, store, storeFile, thrVars, crcMemo, dbVars>>

NewProjectionless(width, height, rowMajor) ==
    constructed("NewProjectionlessIndexer", <<width, height>>,
                NewProjectionlessIndexer(width, height, rowMajor))

NewCylindricalEquirectangular(width, height, rowMajor) ==
    constructed("NewCylindricalEquirectangularIndexer", <<width, height>>,
                NewCylindricalEquirectangularIndexer(0, width, height, rowMajor))

NewFlatHealpix(scheme) ==
    constructed("NewFlatHealpixIndexer", <<HealpixOrder>>, NewFlatHealpixIndexer(HealpixOrder, scheme))

\* NewMercatorCutoffIndexer: panics, and constructs nothing, when the
\* north cutoff is not above the south cutoff.
NewMercatorCutoff(northCutoff, southCutoff, width, height, rowMajor) ==
    IF mercatorPanics(northCutoff, southCutoff)
    THEN /\ ret' = [op |-> "NewMercatorCutoffIndexer", loc |-> <<northCutoff, southCutoff>>,
                    err |-> ErrPanic, index |-> NoPage, detail |-> NoData]
         /\ UNCHANGED <<disk, cache, written, tampered, faults, tblVars, thrVars, crcMemo, dbVars>>
    ELSE constructed("NewMercatorCutoffIndexer", <<northCutoff, southCutoff>>,
                     NewMercatorCutoffIndexer(northCutoff, southCutoff, width, height, rowMajor))

InitIndex == InitTable(NewProjectionlessIndexer(Width, Height, TRUE), {Pad(defaultPage)}, MaxFaults)

NextIndex ==
    \/ \E l \in IndexInputs(indexer) : CallToIndex(l)
    \/ \E g \in GridSizes, rowMajor \in BOOLEAN : NewProjectionless(g[1], g[2], rowMajor)
    \/ \E g \in GridSizes, rowMajor \in BOOLEAN : NewCylindricalEquirectangular(g[1], g[2], rowMajor)
    \/ \E scheme \in {"ring", "nest"} : NewFlatHealpix(scheme)
    \/ \E c \in CutoffPairs, g \in GridSizes, rowMajor \in BOOLEAN :
           NewMercatorCutoff(c[1], c[2], g[1], g[2], rowMajor)

SpecIndex == InitIndex /\ [][NextIndex]_vars

\* The cells of a grid of w by h.
GridCells(w, h) == {[X |-> x, Y |-> y] : x \in 0..(w - 1), y \in 0..(h - 1)}

\* C21: ProjectionlessIndexer.ToIndex over the GridLocations of a W by H
\* grid is one-to-one and onto 0..W*H-1: Y*W + X row-major, X*H + Y
\* column-major, (0,0) goes to 0 and (W-1,H-1) to W*H-1; and the call
\* returns that index.
C21_GridBijection ==
    indexer.Name = "projectionless" =>
        LET w == indexer.Width
            h == indexer.Height
            at(g) == toIndex(indexer, g)
        IN  /\ \A g \in GridCells(w, h) :
                   /\ at(g).err = ErrNil
                   /\ at(g).index = IF indexer.RowMajor THEN g.Y * w + g.X ELSE g.X * h + g.Y
            /\ {at(g).index : g \in GridCells(w, h)} = 0..(w * h - 1)
            /\ \A g1, g2 \in GridCells(w, h) : at(g1).index = at(g2).index => g1 = g2
            /\ at([X |-> 0, Y |-> 0]).index = 0
            /\ at([X |-> w - 1, Y |-> h - 1]).index = w * h - 1
            /\ (ret.op = "ToIndex" /\ ret.loc \in GridCells(w, h)) =>
                   (ret.err = ErrNil /\ ret.index = at(ret.loc).index)

\* C21: a column-major grid wider than high was asked for its last cell.
C21_Witness ==
    /\ ret.op = "ToIndex"
    /\ indexer.Name = "projectionless"
    /\ ~indexer.RowMajor
    /\ indexer.Width > indexer.Height
    /\ ret.loc = [X |-> indexer.Width - 1, Y |-> indexer.Height - 1]
    /\ ret.index = indexer.Width * indexer.Height - 1

\* The Location variants.
LocationTypes ==
    {"IndexLocation", "RingLocation", "NestLocation", "UniqueLocation", "GridLocation",
     "SphericalLocation", "ProjectedLocation", "RectangularLocation"}

\* The variants the description of each indexer lists, RectangularLocation
\* with SphericalLocation.
DocumentedVariants(name) ==
    CASE name = "projectionless" -> {"IndexLocation", "GridLocation"}
      [] name = "flat-healpix" -> LocationTypes \ {"GridLocation"}
      [] OTHER -> {"IndexLocation", "GridLocation", "SphericalLocation", "ProjectedLocation",
                   "RectangularLocation"}

\* C22: every indexer returns i, and no error, for IndexLocation(i); for a
\* location of a variant the indexer does not list, the projectionless
\* indexer for every variant but IndexLocation and GridLocation, ToIndex
\* returns a LocationNotSupportedError with the indexer's name and the
\* location.
C22_LocationSupport ==
    ret.op = "ToIndex" =>
        /\ LocationType(ret.loc) = "IndexLocation" =>
               (ret.err = ErrNil /\ ret.index = ret.loc.Index)
        /\ LocationType(ret.loc) \notin DocumentedVariants(indexer.Name) =>
               /\ ret.err = ErrLocationNotSupported
               /\ ret.detail = [Projection |-> indexer.Name, Location |-> ret.loc]
        /\ (indexer.Name = "projectionless"
                /\ LocationType(ret.loc) \notin {"IndexLocation", "GridLocation"}) =>
               ret.err = ErrLocationNotSupported

\* C22: the Mercator indexer was asked for a RingLocation and refused it.
C22_Witness ==
    /\ ret.op = "ToIndex"
    /\ indexer.Name = "mercator-cutoff"
    /\ LocationType(ret.loc) = "RingLocation"
    /\ ret.err = ErrLocationNotSupported

\* C23: the Mercator indexer returns LocationOutOfBoundsError for a
\* SphericalLocation exactly when its latitude is above the north cutoff
\* or below the south cutoff, whatever the longitude; constructing it
\* panics exactly when the north cutoff is not above the south cutoff, so
\* that no Mercator indexer has such cutoffs.
C23_MercatorCutoff ==
    /\ (ret.op = "ToIndex" /\ indexer.Name = "mercator-cutoff"
            /\ LocationType(ret.loc) = "SphericalLocation") =>
           /\ ret.err = ErrLocationOutOfBounds <=>
                  (ret.loc.Latitude > indexer.NorthCutoff \/ ret.loc.Latitude < indexer.SouthCutoff)
           /\ ret.err = ErrLocationOutOfBounds => ret.detail = [Location |-> ret.loc]
           /\ ret.err \in {ErrLocationOutOfBounds, ErrNil}
    /\ ret.op = "NewMercatorCutoffIndexer" => (ret.err = ErrPanic <=> ret.loc[1] <= ret.loc[2])
    /\ indexer.Name = "mercator-cutoff" => indexer.NorthCutoff > indexer.SouthCutoff

\* C23: the Mercator indexer was asked for a location on its north cutoff
\* and gave an index.
C23_Witness ==
    /\ ret.op = "ToIndex"
    /\ indexer.Name = "mercator-cutoff"
    /\ LocationType(ret.loc) = "SphericalLocation"
    /\ ret.loc.Latitude = indexer.NorthCutoff
    /\ ret.err = ErrNil

\* C24: on a row-major cylindrical equirectangular grid of W by H, the
\* corners of the map go to 0, W-1, W*(H-1) and W*H-1 and the middle to
\* W*((H-1)/2) + (W-1)/2; every latitude and longitude of the sphere goes
\* to a cell of the grid, the one whose coordinates are the fractional
\* pixel coordinates without their fractions.
C24_CylindricalBoundaries ==
    (ret.op = "ToIndex" /\ indexer.Name = "cylindrical-equirectangular" /\ indexer.grid.RowMajor
         /\ LocationType(ret.loc) = "SphericalLocation") =>
        LET w == indexer.grid.Width
            h == indexer.grid.Height
            lat == ret.loc.Latitude
            lon == ret.loc.Longitude
            x == ret.index % w
            y == ret.index \div w
            south == 0 - (Pi \div 2)
            north == Pi \div 2
        IN  /\ ret.err = ErrNil
            /\ 0 <= x /\ x <= w - 1 /\ 0 <= y /\ y <= h - 1
            /\ x * 2 * Pi <= (lon + Pi) * (w - 1) /\ (lon + Pi) * (w - 1) < (x + 1) * 2 * Pi
            /\ y * Pi <= (lat + north) * (h - 1) /\ (lat + north) * (h - 1) < (y + 1) * Pi
            /\ (lat = south /\ lon = 0 - Pi) => ret.index = 0
            /\ (lat = south /\ lon = Pi) => ret.index = w - 1
            /\ (lat = north /\ lon = 0 - Pi) => ret.index = w * (h - 1)
            /\ (lat = north /\ lon = Pi) => ret.index = w * h - 1
            /\ (lat = 0 /\ lon = 0) => ret.index = w * ((h - 1) \div 2) + ((w - 1) \div 2)

\* C24: the middle of the map was asked for of a grid with an even number
\* of rows, where the fractional row is a half.
C24_Witness ==
    /\ ret.op = "ToIndex"
    /\ indexer.Name = "cylindrical-equirectangular"
    /\ indexer.grid.RowMajor
    /\ indexer.grid.Height % 2 = 0
    /\ ret.loc = SphericalLocation(0, 0)
    /\ ret.index = indexer.grid.Width * ((indexer.grid.Height - 1) \div 2)
                       + ((indexer.grid.Width - 1) \div 2)

(***************************************************************************)
(* Values and column encoding.  The integers of Go are wider than those   *)
(* of the model, so a native integer is its sign and the base-256 digits   *)
(* of its magnitude, and an unsigned word is its base-256 digits, in both  *)
(* the least significant digit first.  A float32 is its sign, exponent     *)
(* and mantissa fields; a float64 has its mantissa in two parts, the top   *)
(* four bits and the six bytes below them.                                 *)
(***************************************************************************)

ColumnTypes ==
    {"ColumnTypeInt8", "ColumnTypeUint8", "ColumnTypeInt16", "ColumnTypeUint16", "ColumnTypeInt32",
     "ColumnTypeUint32", "ColumnTypeInt64", "ColumnTypeUint64", "ColumnTypeFloat32",
     "ColumnTypeFloat64"}

SignedTypes == {"ColumnTypeInt8", "ColumnTypeInt16", "ColumnTypeInt32", "ColumnTypeInt64"}

UnsignedTypes == {"ColumnTypeUint8", "ColumnTypeUint16", "ColumnTypeUint32", "ColumnTypeUint64"}

\* d - 1 on the digits of a word that is not zero.
dec(d) ==
    LET k == CHOOSE i \in 1..Len(d) : d[i] # 0 /\ \A j \in 1..(i - 1) : d[j] = 0 IN
    [i \in 1..Len(d) |-> IF i < k THEN 255 ELSE IF i = k THEN d[i] - 1 ELSE d[i]]

\* d + 1 on the digits of a word, within its width.
inc(d) ==
    IF \A i \in 1..Len(d) : d[i] = 255 THEN [i \in 1..Len(d) |-> 0]
    ELSE LET k == CHOOSE i \in 1..Len(d) : d[i] # 255 /\ \A j \in 1..(i - 1) : d[j] = 255 IN
         [i \in 1..Len(d) |-> IF i < k THEN 0 ELSE IF i = k THEN d[i] + 1 ELSE d[i]]

\* ^d: every bit of the word turned over.
compl(d) == [i \in 1..Len(d) |-> 255 - d[i]]

\* uintN(val) of a signed val: the word of the same bits, the two's
\* complement of the magnitude when val is negative.
uintOf(v) == IF v.neg THEN compl(dec(v.mag)) ELSE v.mag

\* intN(u) of a word u: negative when the top bit is set.
intOf(u) ==
    IF u[Len(u)] >= 128 THEN [neg |-> TRUE, mag |-> inc(compl(u))] ELSE [neg |-> FALSE, mag |-> u]

\* A word taken as the unsigned integer it is.
unsignedOf(u) == [neg |-> FALSE, mag |-> u]

\* The bytes of a word with the least significant byte first.
PutUintLittleEndian(u) == u

\* binary.BigEndian.PutUint16 / PutUint32 / PutUint64: the bytes of the
\* word, the most significant first.
PutUint(u) == [i \in 1..Len(u) |-> u[Len(u) + 1 - i]]

\* binary.BigEndian.Uint16 / Uint32 / Uint64: the word of the bytes.
Uint(b) == [i \in 1..Len(b) |-> b[Len(b) + 1 - i]]

\* math.Float32bits: sign, 8 bits of exponent, 23 bits of mantissa.
Float32bits(f) ==
    <<f.mant % 256, (f.mant \div 256) % 256, (f.exp % 2) * 128 + (f.mant \div 65536),
      f.sign * 128 + (f.exp \div 2)>>

\* math.Float32frombits
Float32frombits(u) ==
    [sign |-> u[4] \div 128, exp |-> (u[4] % 128) * 2 + (u[3] \div 128),
     mant |-> (u[3] % 128) * 65536 + u[2] * 256 + u[1]]

\* math.Float64bits: sign, 11 bits of exponent, 52 bits of mantissa.
Float64bits(f) == f.mantLo \o <<(f.exp % 16) * 16 + f.mantHi, f.sign * 128 + (f.exp \div 16)>>

\* math.Float64frombits
Float64frombits(u) ==
    [sign |-> u[8] \div 128, exp |-> (u[8] % 128) * 16 + (u[7] \div 16), mantHi |-> u[7] % 16,
     mantLo |-> SubSeq(u, 1, 6)]

\* NewInt8Value .. NewFloat64Value
NewValue(kind, val) ==
    CASE kind = "ColumnTypeInt8" -> <<uintOf(val)[1]>>
      [] kind = "ColumnTypeUint8" -> <<val.mag[1]>>
      [] kind \in SignedTypes \ {"ColumnTypeInt8"} -> PutUint(uintOf(val))
      [] kind \in UnsignedTypes \ {"ColumnTypeUint8"} -> PutUint(val.mag)
      [] kind = "ColumnTypeFloat32" -> PutUint(Float32bits(val))
      [] kind = "ColumnTypeFloat64" -> PutUint(Float64bits(val))

\* Value.AsInt8 .. Value.AsFloat64
AsValue(kind, v) ==
    CASE kind = "ColumnTypeInt8" -> intOf(<<v[1]>>)
      [] kind = "ColumnTypeUint8" -> unsignedOf(<<v[1]>>)
      [] kind \in SignedTypes \ {"ColumnTypeInt8"} -> intOf(Uint(v))
      [] kind \in UnsignedTypes \ {"ColumnTypeUint8"} -> unsignedOf(Uint(v))
      [] kind = "ColumnTypeFloat32" -> Float32frombits(Uint(v))
      [] kind = "ColumnTypeFloat64" -> Float64frombits(Uint(v))

\* What a call that panicked left, and what a call that returned v left.
panicked == [err |-> ErrPanic, val |-> NoData]

returned(v) == [err |-> ErrNil, val |-> v]

\* retArr := make([]byte, c.Size())
zeros(n) == [i \in 1..n |-> 0]

\* retArr[at] = b, at counted from 0: a panic when at is beyond the slice.
setByte(retArr, at, b) ==
    IF at >= Len(retArr) THEN panicked ELSE returned([retArr EXCEPT ![at + 1] = b])

\* ColumnType.EncodeValue(val): the Uint8 case stores at retArr[1], beyond
\* the one byte of the slice.
EncodeValue(c, val) ==
    LET retArr == zeros(ColumnTypeSize(c)) IN
    CASE c = "ColumnTypeInt8" -> setByte(retArr, 0, uintOf(val)[1])
      [] c = "ColumnTypeUint8" -> setByte(retArr, 1, val.mag[1])
      [] c \in SignedTypes \ {"ColumnTypeInt8"} -> returned(PutUint(uintOf(val)))
      [] c \in UnsignedTypes \ {"ColumnTypeUint8"} -> returned(PutUint(val.mag))
      [] c = "ColumnTypeFloat32" -> returned(PutUint(Float32bits(val)))
      [] c = "ColumnTypeFloat64" -> returned(PutUint(Float64bits(val)))
      [] OTHER -> panicked

\* NewColumnEncoded(name, ctype, defval)
NewColumnEncoded(name, ctype, defval) ==
    IF Len(defval) # ColumnTypeSize(ctype) THEN panicked
    ELSE returned([Name |-> name, Type |-> ctype, Default |-> defval])

\* NewColumnUnencoded(name, ctype, defval)
NewColumnUnencoded(name, ctype, defval) ==
    IF EncodeValue(ctype, defval).err = ErrPanic THEN panicked
    ELSE NewColumnEncoded(name, ctype, EncodeValue(ctype, defval).val)

\* NewColumnInt8 .. NewColumnFloat64: the two one-byte constructors encode
\* the default themselves.
NewColumn(kind, name, defval) ==
    CASE kind = "ColumnTypeInt8" -> NewColumnEncoded(name, kind, <<uintOf(defval)[1]>>)
      [] kind = "ColumnTypeUint8" -> NewColumnEncoded(name, kind, <<defval.mag[1]>>)
      [] OTHER -> NewColumnUnencoded(name, kind, defval)

\* Column.EncodeValue(val)
ColumnEncodeValue(c, val) == EncodeValue(c.Type, val)

\* The words of n bytes the values are made of: zero, one, the greatest,
\* the top bit alone, the top bit clear and the rest set, and two words
\* whose bytes all differ.
Words(n) ==
    {zeros(n), [i \in 1..n |-> 255], [i \in 1..n |-> IF i = 1 THEN 1 ELSE 0],
     [i \in 1..n |-> IF i = n THEN 128 ELSE 0], [i \in 1..n |-> IF i = n THEN 127 ELSE 255],
     [i \in 1..n |-> i], [i \in 1..n |-> 255 - i]}

\* The native values of a kind: every value of the one-byte kinds, and of
\* the wider integers those of the words above.
NativeValues(kind) ==
    CASE kind = "ColumnTypeUint8" -> {unsignedOf(<<b>>) : b \in Byte}
      [] kind = "ColumnTypeInt8" -> {intOf(<<b>>) : b \in Byte}
      [] kind \in UnsignedTypes -> {unsignedOf(u) : u \in Words(ColumnTypeSize(kind))}
      [] kind \in SignedTypes -> {intOf(u) : u \in Words(ColumnTypeSize(kind))}
      [] kind = "ColumnTypeFloat32" ->
            [sign : 0..1, exp : {0, 1, 127, 254, 255}, mant : {0, 1, 66051, 4194304, 8388607}]
      [] kind = "ColumnTypeFloat64" ->
            [sign : 0..1, exp : {0, 1, 1023, 2046, 2047}, mantHi : {0, 8, 15},
             mantLo : {zeros(6), [i \in 1..6 |-> 255], [i \in 1..6 |-> i]}]

ValueResult(op, kind, arg, r) ==
    [op |-> op, kind |-> kind, arg |-> arg, err |-> r.err, val |-> r.val]

valueFrame == UNCHANGED <<disk, cache, written, tampered, faults, tblVars, thrVars, crcMemo, dbVars>>

\* NewKValue(val) of the value at hand.
CallNewValue ==
    /\ ret' = ValueResult("NewValue", ret.kind, ret.arg, returned(NewValue(ret.kind, ret.arg)))
    /\ valueFrame

\* v.AsK() of the Value the last call made.
CallAsValue ==
    /\ ret.op = "NewValue"
    /\ ret' = ValueResult("AsValue", ret.kind, ret.arg, returned(AsValue(ret.kind, ret.val)))
    /\ valueFrame

CallEncodeValue ==
    /\ ret' = ValueResult("EncodeValue", ret.kind, ret.arg, EncodeValue(ret.kind, ret.arg))
    /\ valueFrame

CallColumnEncodeValue ==
    /\ ret.op = "NewColumn"
    /\ ret.err = ErrNil
    /\ ret' = ValueResult("Column.EncodeValue", ret.kind, ret.arg,
                          ColumnEncodeValue(ret.val, ret.arg))
    /\ valueFrame

CallNewColumnUnencoded ==
    /\ ret' = ValueResult("NewColumnUnencoded", ret.kind, ret.arg,
                          NewColumnUnencoded("c", ret.kind, ret.arg))
    /\ valueFrame

CallNewColumn ==
    /\ ret' = ValueResult("NewColumn", ret.kind, ret.arg, NewColumn(ret.kind, "c", ret.arg))
    /\ valueFrame

\* A kind and a native value of it are at hand; every call is made of
\* them.
InitValue ==
    \E kind \in ColumnTypes : \E val \in NativeValues(kind) :
        InitWith(Indexer, {Pad(defaultPage)}, MaxFaults,
                 ValueResult("value", kind, val, returned(NoData)))

NextValue ==
    \/ CallNewValue
    \/ CallAsValue
    \/ CallEncodeValue
    \/ CallColumnEncodeValue
    \/ CallNewColumnUnencoded
    \/ CallNewColumn

SpecValue == InitValue /\ [][NextValue]_vars

\* The sum of two words and a carry is zero within the width of the words,
\* with a carry out of it: one is the two's complement of the other.
RECURSIVE sumsToZero(_, _, _, _)
sumsToZero(a, b, i, carry) ==
    IF i > Len(a) THEN carry = 1
    ELSE /\ (a[i] + b[i] + carry) % 256 = 0
         /\ sumsToZero(a, b, i + 1, (a[i] + b[i] + carry) \div 256)

\* The word a Value holds: its bytes from the last to the first.
wordOf(v) == [i \in 1..Len(v) |-> v[Len(v) + 1 - i]]

\* The bytes are the big-endian layout of the value of the kind: the
\* magnitude of a value that is not negative, the two's complement of the
\* magnitude of a negative one, the bit fields of a float.
bigEndianOf(kind, val, v) ==
    CASE kind \in SignedTypes \cup UnsignedTypes ->
            IF val.neg THEN sumsToZero(wordOf(v), val.mag, 1, 0) ELSE wordOf(v) = val.mag
      [] kind = "ColumnTypeFloat32" ->
            /\ v[1] \div 128 = val.sign
            /\ (v[1] % 128) * 2 + (v[2] \div 128) = val.exp
            /\ (v[2] % 128) * 65536 + v[3] * 256 + v[4] = val.mant
      [] kind = "ColumnTypeFloat64" ->
            /\ v[1] \div 128 = val.sign
            /\ (v[1] % 128) * 16 + (v[2] \div 16) = val.exp
            /\ v[2] % 16 = val.mantHi
            /\ <<v[8], v[7], v[6], v[5], v[4], v[3]>> = val.mantLo

\* C25: for each of the ten kinds K and a value v of its native type,
\* NewKValue(v) has Size(K) bytes, the big-endian layout of v (two's
\* complement for the signed integers, the IEEE-754 bits for the floats),
\* and AsK of it is v again, bit for bit.
C25_ValueRoundTrip ==
    /\ ret.op = "NewValue" =>
           /\ Len(ret.val) = ColumnTypeSize(ret.kind)
           /\ \A i \in 1..Len(ret.val) : ret.val[i] \in Byte
           /\ bigEndianOf(ret.kind, ret.arg, ret.val)
           /\ AsValue(ret.kind, ret.val) = ret.arg
    /\ ret.op = "AsValue" => ret.val = ret.arg

\* C25: a negative int64 whose first and last bytes differ went through
\* NewInt64Value and AsInt64.
C25_Witness ==
    /\ ret.op = "AsValue"
    /\ ret.kind = "ColumnTypeInt64"
    /\ ret.arg.neg
    /\ ret.arg.mag[1] # ret.arg.mag[8]
    /\ ret.val = ret.arg

\* C26: for each of the ten kinds K and a value v of its native type,
\* ColumnType.EncodeValue(v) and Column.EncodeValue(v) return, without a
\* panic, the Size(K) bytes of NewKValue(v); NewColumnUnencoded and the
\* NewColumnK constructor return, without a panic, a Column of Type K
\* whose Default is those bytes.
C26_ColumnEncoding ==
    /\ ret.op \in {"EncodeValue", "Column.EncodeValue"} =>
           /\ ret.err = ErrNil
           /\ Len(ret.val) = ColumnTypeSize(ret.kind)
           /\ ret.val = NewValue(ret.kind, ret.arg)
    /\ ret.op \in {"NewColumnUnencoded", "NewColumn"} =>
           /\ ret.err = ErrNil
           /\ ret.val.Type = ret.kind
           /\ Len(ret.val.Default) = ColumnTypeSize(ret.kind)
           /\ ret.val.Default = NewValue(ret.kind, ret.arg)

(***************************************************************************)
(* Table.SetRows with values of every size: the columns are one byte       *)
(* wide, the values none, one or two bytes long, and a location is given   *)
(* fewer, as many or more values than there are columns.                   *)
(***************************************************************************)

SizedValues == {<<>>, <<7>>, <<8, 9>>}

\* The lists of at most n values.
ValueLists(n) == UNION {[1..k -> SizedValues] : k \in 0..n}

\* The calls: one location with at most as many values as columns, or
\* with one more, and two locations with the values of the first only.
SizedCalls ==
    {[columns |-> AllColumns, locations |-> <<Corner>>, values |-> <<vs>>] :
        vs \in ValueLists(2) \cup {<<<<7>>, <<7>>, <<7>>>>}}
      \cup {[columns |-> <<"col2">>, locations |-> <<Corner, Middle>>, values |-> <<vs>>] :
              vs \in ValueLists(1)}

InitSizes == InitTable(NewProjectionlessIndexer(Width, Height, TRUE), TablePages, MaxFaults)

NextSizes ==
    \/ \E c \in SizedCalls : SetRowValues(c.columns, c.locations, c.values)
    \/ \E l \in {Corner, Middle} : GetRows(AllColumns, <<l>>)

SpecSizes == InitSizes /\ [][NextSizes]_vars

\* A location of the call has not one value for each column, or a value
\* that has not the size of its column.
sizeMismatch(columns, locations, values) ==
    \E i \in DOMAIN locations :
        \/ Len(valuesFor(values, i)) # Len(columns)
        \/ \E j \in DOMAIN columns :
              Len(values[i][j]) # projOf(columns)[j].size

\* C30: a SetRows on known columns with a location that has not one value
\* per column, or a value whose length is not the size of its column,
\* fails, by a panic or an error, and stores nothing: every row is as it
\* was.
C30_ValueSizes ==
    [][(ret'.op = "SetRows" /\ ret'.err # ErrColumnNotFound
            /\ sizeMismatch(ret'.columns, ret'.index, ret'.values)) =>
         /\ ret'.err # ErrNil
         /\ \A r \in RowIndexes : storedRow(cache', disk', r) = storedRow(cache, disk, r)]_vars

(***************************************************************************)
(* The Database: a directory with one directory per table, and the map    *)
(* from the names to the open Tables.  A Table of the map is its Store,    *)
(* its indexer, its metadata and the cache of its Pagemaster; its files    *)
(* are in fs.  Every table has the columns of ColumnSet, and no write to   *)
(* a file fails.                                                           *)
(***************************************************************************)

ErrTableNotFound == "table not found"

\* A TableNotFoundError that does not say which table.
TableNotFoundErrorUnnamed(tableName) == [Table |-> ""]

\* TableNotFoundError{Table}
NewTableNotFoundError(tableName) == [Table |-> tableName]

\* The directory, or the map, without the name n.
without(dir, n) == [m \in DOMAIN dir \ {n} |-> dir[m]]

\* What a call of the Database returned: val is the value, detail the
\* error's fields.
DbResult(op, tableName, arg, err, val, detail) ==
    [op |-> op, table |-> tableName, arg |-> arg, err |-> err, val |-> val, detail |-> detail]

\* The return of a call that did not find the table.
notFound(op, tableName, arg, val) ==
    DbResult(op, tableName, arg, ErrTableNotFound, val, NewTableNotFoundError(tableName))

\* NewTable(filepath.Join(dbPath, name), indexer, columns): the Table, and
\* the files of its directory.  A data file and a .tbl.json file that are
\* there already are written over from their start, the .meta.json file is
\* created anew.
newTable(dir, name, ix, columns) ==
    LET r == newStore(name, Size(ix), columns) IN
    IF r.err # ErrNil THEN [err |-> r.err, made |-> r.made] ELSE
    [err |-> ErrNil, made |-> r.made,
     table |-> [store |-> r.store, Indexer |-> ix, IndexerName |-> ix.Name,
                Metadata |-> newMetadata(ix), cache |-> <<>>],
     files |-> [storeFile |-> r.file,
                disk |-> IF name \in DOMAIN dir
                         THEN Initialize(dir[name].disk,
                                         pageCount(Size(ix), r.store.rowsPerPage),
                                         repeatRow(concatDefaults(columns, Len(columns)),
                                                   r.store.rowsPerPage))
                         ELSE r.disk,
                tblFile |-> saveTableMetadata(IF name \in DOMAIN dir THEN dir[name].tblFile
                                              ELSE <<>>,
                                              ix, ix.Name, newMetadata(ix))]]

\* OpenTable(filepath.Join(dbPath, name)): the Table, or the error of
\* json.Unmarshal.
openTable(dir, name) ==
    LET t == UnmarshalJSON(dir[name].tblFile) IN
    IF t.err # ErrNil THEN [err |-> t.err]
    ELSE [err |-> ErrNil,
          table |-> [store |-> openStore(name, dir[name].storeFile), Indexer |-> t.Indexer,
                     IndexerName |-> t.IndexerName, Metadata |-> t.Metadata, cache |-> <<>>]]

dbFrame == UNCHANGED <<disk, cache, written, tampered, faults, tblVars, thrVars, crcMemo>>

\* A directory os.MkdirAll made, with no file in it yet.
EmptyDir == [storeFile |-> <<>>, disk |-> EmptyFile, tblFile |-> <<>>]

\* The directory of the Database after a NewTable that failed.
afterFailed(dir, name, made) ==
    IF "dir" \in made /\ name \notin DOMAIN dir THEN withFile(dir, name, EmptyDir) ELSE dir

\* Database.Create(tableName, indexer, columns...): an error of NewTable
\* is returned before the lock is taken.
DatabaseCreateColumns(tableName, ix, columns) ==
    LET n == newTable(fs, tableName, ix, columns) IN
    IF n.err # ErrNil
    THEN /\ fs' = afterFailed(fs, tableName, n.made)
         /\ ret' = DbResult("Create", tableName, ix.Name, n.err, NoData, NoData)
         /\ UNCHANGED <<cwd, db>>
         /\ dbFrame
    ELSE /\ fs' = withFile(fs, tableName, n.files)
         /\ db' = [db EXCEPT !.tables = withFile(@, tableName, n.table),
                             !.created = @ \cup {tableName}, !.dropped = @ \ {tableName}]
         /\ ret' = DbResult("Create", tableName, ix.Name, ErrNil, NoData, NoData)
         /\ UNCHANGED cwd
         /\ dbFrame

\* Database.Create with the columns of the table of the model.
DatabaseCreate(tableName, ix) == DatabaseCreateColumns(tableName, ix, ColumnSet)

\* Database.Drop(tableName): d.tables[tableName].Drop() on the nil *Table
\* of a name that is not in the map panics; os.RemoveAll of the empty path
\* of a reopened store removes nothing and returns nil.
DatabaseDrop(tableName) ==
    IF tableName \notin DOMAIN db.tables
    THEN /\ ret' = DbResult("Drop", tableName, NoData, ErrPanic, NoData, NoData)
         /\ UNCHANGED dbVars
         /\ dbFrame
    ELSE /\ fs' = IF db.tables[tableName].store.path = "" THEN fs ELSE without(fs, tableName)
         /\ db' = [db EXCEPT !.tables = without(@, tableName),
                             !.created = @ \ {tableName}, !.dropped = @ \cup {tableName}]
         /\ ret' = DbResult("Drop", tableName, NoData, ErrNil, NoData, NoData)
         /\ UNCHANGED cwd
         /\ dbFrame

\* Database.GetTableNames()
DatabaseGetTableNames ==
    /\ ret' = DbResult("GetTableNames", "", NoData, ErrNil, DOMAIN db.tables, NoData)
    /\ UNCHANGED dbVars
    /\ dbFrame

\* Database.GetColumns(tableName)
DatabaseGetColumns(tableName) ==
    /\ ret' = IF tableName \notin DOMAIN db.tables
              THEN notFound("GetColumns", tableName, NoData, NoData)
              ELSE DbResult("GetColumns", tableName, NoData, ErrNil,
                            db.tables[tableName].store.ColumnSet, NoData)
    /\ UNCHANGED dbVars
    /\ dbFrame

\* The table of the name with the cache c, and its directory with the
\* data file d.
withCache(tables, tableName, c) == [tables EXCEPT ![tableName].cache = c]

withDisk(dir, tableName, d) == [dir EXCEPT ![tableName].disk = d]

\* Database.GetRows(tableName, columns, locations...): the Table is given
\* the slice of locations as the one location of its variadic parameter.
DatabaseGetRows(tableName, columns, locations) ==
    IF tableName \notin DOMAIN db.tables
    THEN /\ ret' = notFound("GetRows", tableName, <<columns, locations>>, NoData)
         /\ UNCHANGED dbVars
         /\ dbFrame
    ELSE LET t == db.tables[tableName]
             p == projection(t.store, columns, Len(columns))
         IN  IF p.err # ErrNil
             THEN /\ ret' = DbResult("GetRows", tableName, <<columns, locations>>, p.err, NoData,
                                     p.detail)
                  /\ UNCHANGED dbVars
                  /\ dbFrame
             ELSE \E r \in getRows([cache |-> t.cache, disk |-> fs[tableName].disk,
                                    nf |-> MaxFaults, wrote |-> {}],
                                   t.Indexer, p.proj, <<SliceLocation(locations)>>, 1, <<>>) :
                     /\ db' = [db EXCEPT !.tables = withCache(@, tableName, r.st.cache)]
                     /\ fs' = withDisk(fs, tableName, r.st.disk)
                     /\ ret' = DbResult("GetRows", tableName, <<columns, locations>>, r.err,
                                        r.rows, NoData)
                     /\ UNCHANGED cwd
                     /\ dbFrame

\* Database.SetRows(tableName, columns, locations, values)
DatabaseSetRows(tableName, columns, locations, values) ==
    IF tableName \notin DOMAIN db.tables
    THEN /\ ret' = notFound("SetRows", tableName, <<columns, locations>>, 0)
         /\ UNCHANGED dbVars
         /\ dbFrame
    ELSE LET t == db.tables[tableName]
             p == projection(t.store, columns, Len(columns))
         IN  IF p.err # ErrNil
             THEN /\ ret' = DbResult("SetRows", tableName, <<columns, locations>>, p.err, 0,
                                     p.detail)
                  /\ UNCHANGED dbVars
                  /\ dbFrame
             ELSE \E r \in setRows([cache |-> t.cache, disk |-> fs[tableName].disk,
                                    nf |-> MaxFaults, wrote |-> {}],
                                   t.Indexer, p.proj, locations, values, 1) :
                     /\ db' = [db EXCEPT !.tables = withCache(@, tableName, r.st.cache)]
                     /\ fs' = withDisk(fs, tableName, r.st.disk)
                     /\ ret' = DbResult("SetRows", tableName, <<columns, locations>>, r.err,
                                        r.n, NoData)
                     /\ UNCHANGED cwd
                     /\ dbFrame

\* Database.GetMetadata(tableName, key): the empty string, and no error,
\* for a key the table has not.
DatabaseGetMetadata(tableName, key) ==
    /\ ret' = IF tableName \notin DOMAIN db.tables
              THEN notFound("GetMetadata", tableName, key, <<>>)
              ELSE DbResult("GetMetadata", tableName, key, ErrNil,
                            IF key \notin DOMAIN db.tables[tableName].Metadata THEN <<>>
                            ELSE db.tables[tableName].Metadata[key], NoData)
    /\ UNCHANGED dbVars
    /\ dbFrame

\* Database.SetMetadata(tableName, key, value): Table.SetMetadata, which
\* saves to the directory of the table or, for the empty path of a
\* reopened store, to the working directory.
DatabaseSetMetadata(tableName, key, value) ==
    IF tableName \notin DOMAIN db.tables
    THEN /\ ret' = notFound("SetMetadata", tableName, key, NoData)
         /\ UNCHANGED dbVars
         /\ dbFrame
    ELSE LET t == db.tables[tableName]
             md == [k \in DOMAIN t.Metadata \cup {key} |->
                      IF k = key THEN value ELSE t.Metadata[k]]
         IN  /\ db' = [db EXCEPT !.tables[tableName].Metadata = md]
             /\ IF t.store.path = ""
                THEN /\ cwd' = withFile(cwd, tableName,
                                        saveTableMetadata(fileOf(cwd, tableName), t.Indexer,
                                                          t.IndexerName, md))
                     /\ UNCHANGED fs
                ELSE /\ fs' = [fs EXCEPT ![tableName].tblFile =
                                  saveTableMetadata(@, t.Indexer, t.IndexerName, md)]
                     /\ UNCHANGED cwd
             /\ ret' = DbResult("SetMetadata", tableName, key, ErrNil, NoData, NoData)
             /\ dbFrame

\* Checkpoint of one table: every dirty page of its cache is written.
checkpointed(c, d) ==
    flushAll(c, d, CHOOSE o \in Orders(DOMAIN c) : TRUE, 1, NoPage, WriteDone, {})

\* Database.Checkpoint(): Checkpoint of every table of the map.
DatabaseCheckpoint ==
    /\ db' = [db EXCEPT !.tables =
                 [n \in DOMAIN @ |-> [@[n] EXCEPT !.cache = checkpointed(@, fs[n].disk).cache]]]
    /\ fs' = [n \in DOMAIN fs |->
                IF n \in DOMAIN db.tables
                THEN [fs[n] EXCEPT !.disk = checkpointed(db.tables[n].cache, @).disk]
                ELSE fs[n]]
    /\ ret' = DbResult("Checkpoint", "", NoData, ErrNil, NoData, NoData)
    /\ UNCHANGED cwd
    /\ dbFrame

\* OpenDatabase(dbPath): OpenTable of every directory of dbPath, and the
\* error of the first that fails; the Database it returns takes the place
\* of the one in use.
OpenDatabase ==
    /\ opens < MaxOpens
    /\ opens' = opens + 1
    /\ IF \E n \in DOMAIN fs : openTable(fs, n).err # ErrNil
       THEN /\ ret' = DbResult("OpenDatabase", "", NoData, ErrJSON, NoData, NoData)
            /\ UNCHANGED db
       ELSE /\ db' = [db EXCEPT !.tables = [n \in DOMAIN fs |-> openTable(fs, n).table]]
            /\ ret' = DbResult("OpenDatabase", "", NoData, ErrNil, NoData, NoData)
    /\ UNCHANGED <<cwd, fs>>
    /\ UNCHANGED <<disk, cache, written, tampered, faults, indexer, indexerName, metadata, tblFile,
                   cells, store, storeFile, thrVars, crcMemo>>

\* The names of the tables that are created and dropped, and a name that
\* never is a table's.
DbNames == {"hello", "goodbye"}

NoTable == "nowhere"

\* The indexers the tables are created with.
DbIndexers ==
    {NewProjectionlessIndexer(Width, Height, TRUE),
     NewCylindricalEquirectangularIndexer(0, Width, Height, TRUE)}

InitDb == InitTable(Indexer, TablePages, MaxFaults)

\* The calls that name a table and read or write it are made of one
\* table and of the name that is none.
NextDb ==
    \/ \E n \in DbNames, ix \in DbIndexers : DatabaseCreate(n, ix)
    \/ \E n \in DbNames : DatabaseDrop(n)
    \/ DatabaseGetTableNames
    \/ \E n \in {"hello", NoTable} : DatabaseGetColumns(n)
    \/ \E n \in {"hello", NoTable} : DatabaseGetRows(n, AllColumns, <<Corner>>)
    \/ \E n \in {"hello", NoTable} :
           DatabaseSetRows(n, AllColumns, <<Corner>>, <<valuesOf(Corner, AllColumns)>>)
    \/ \E n \in {"hello", NoTable}, key \in {"k1", "k2"} : DatabaseGetMetadata(n, key)
    \/ \E n \in {"hello", NoTable} : DatabaseSetMetadata(n, "k1", <<"x">>)
    \/ DatabaseCheckpoint
    \/ OpenDatabase

SpecDb == InitDb /\ [][NextDb]_vars

\* C27: GetColumns, GetRows, SetRows, GetMetadata and SetMetadata with a
\* name that is not in the map return the TableNotFoundError of that name,
\* SetRows with the count 0, and change neither the map nor a file;
\* GetMetadata of a table of the map and a key it has not returns the
\* empty string and no error.
C27_AbsentTable ==
    [][/\ (ret'.op \in {"GetColumns", "GetRows", "SetRows", "GetMetadata", "SetMetadata"}
               /\ ret'.table \notin DOMAIN db.tables) =>
              /\ ret'.err = ErrTableNotFound
              /\ ret'.detail = [Table |-> ret'.table]
              /\ ret'.op = "SetRows" => ret'.val = 0
              /\ UNCHANGED <<db, fs, cwd>>
       /\ (ret'.op = "GetMetadata" /\ ret'.table \in DOMAIN db.tables) =>
              /\ ret'.err = ErrNil
              /\ ret'.arg \notin DOMAIN db.tables[ret'.table].Metadata => ret'.val = <<>>
              /\ ret'.arg \in DOMAIN db.tables[ret'.table].Metadata =>
                     ret'.val = db.tables[ret'.table].Metadata[ret'.arg]]_vars

\* C27: SetRows did not find its table in a map that has another.
C27_Witness ==
    /\ ret.op = "SetRows"
    /\ ret.err = ErrTableNotFound
    /\ ret.val = 0
    /\ ret.table \notin DOMAIN db.tables
    /\ DOMAIN db.tables # {}

\* Create, Drop and OpenDatabase, and the calls that change no table.
NextRegistry ==
    \/ \E n \in DbNames, ix \in DbIndexers : DatabaseCreate(n, ix)
    \/ \E n \in DbNames : DatabaseDrop(n)
    \/ DatabaseGetTableNames
    \/ \E n \in DbNames : DatabaseGetColumns(n)
    \/ \E n \in DbNames : DatabaseGetMetadata(n, "k1")
    \/ OpenDatabase

SpecRegistry == InitDb /\ [][NextRegistry]_vars

\* C28: after Creates and Drops that succeeded, GetTableNames returns the
\* names created and not dropped since; the directory of a table whose
\* Drop succeeded is gone; a later call that names a dropped table returns
\* TableNotFoundError; and OpenDatabase succeeds with a Database of those
\* same names.
C28_Registry ==
    [][/\ ret'.op = "GetTableNames" => ret'.val = db'.created
       /\ (ret'.op = "Drop" /\ ret'.err = ErrNil) => ret'.table \notin DOMAIN fs'
       /\ (ret'.op \in {"Drop", "GetColumns", "GetMetadata"} /\ ret'.table \in db.dropped) =>
              ret'.err = ErrTableNotFound
       /\ ret'.op = "OpenDatabase" => (ret'.err = ErrNil /\ DOMAIN db'.tables = db.created)]_vars

(***************************************************************************)
(* The Database used by several threads.  A call goes through its steps   *)
(* one at a time: taking and releasing Database.lock, and an access to     *)
(* the map, which begins in one step and ends in a later one.  A read of   *)
(* the map that overlaps a write of it is a data race: it sees the map     *)
(* before or after the write, or the Go runtime ends the process with     *)
(* "concurrent map read and map write".                                    *)
(***************************************************************************)

ErrFatal == "fatal error: concurrent map read and map write"

\* The locals of a thread in a call of the Database: seen is what its read
\* of the map found.
DbCall(op, tableName, ix) == [op |-> op, table |-> tableName, ix |-> ix, seen |-> "none"]

\* The calls that hold the read lock and only read the map.
DbReaders == {"GetTableNames", "GetColumns", "GetMetadata"}

\* sync.RWMutex: Lock waits for the writer and the readers to leave, RLock
\* for the writer.
canLockDb == db.writer = 0 /\ db.readers = {}

canRLockDb == db.writer = 0

conFrame == UNCHANGED <<disk, cache, written, tampered, faults, tblVars, lock, detached, crcMemo>>

\* A thread enters Create: NewTable, with no lock held.
BeginCreate(t, tableName, ix) ==
    /\ pc[t] = "idle"
    /\ fs' = withFile(fs, tableName, newTable(fs, tableName, ix, ColumnSet).files)
    /\ pc' = [pc EXCEPT ![t] = "lock"]
    /\ loc' = [loc EXCEPT ![t] = DbCall("Create", tableName, ix)]
    /\ ret' = Pending
    /\ UNCHANGED <<cwd, db>>
    /\ conFrame

\* A thread enters Drop: it is about to read d.tables[tableName], with no
\* lock held.
BeginDrop(t, tableName) ==
    /\ pc[t] = "idle"
    /\ pc' = [pc EXCEPT ![t] = "read"]
    /\ loc' = [loc EXCEPT ![t] = DbCall("Drop", tableName, NoData)]
    /\ ret' = Pending
    /\ UNCHANGED dbVars
    /\ conFrame

\* A thread enters a call that reads under the read lock.
BeginRead(t, op, tableName) ==
    /\ pc[t] = "idle"
    /\ pc' = [pc EXCEPT ![t] = "rlock"]
    /\ loc' = [loc EXCEPT ![t] = DbCall(op, tableName, NoData)]
    /\ ret' = Pending
    /\ UNCHANGED dbVars
    /\ conFrame

\* d.lock.RLock()
RLockDb(t) ==
    /\ pc[t] = "rlock"
    /\ canRLockDb
    /\ db' = [db EXCEPT !.readers = @ \cup {t}]
    /\ pc' = [pc EXCEPT ![t] = "read"]
    /\ ret' = Pending
    /\ UNCHANGED <<cwd, fs, loc>>
    /\ conFrame

\* d.lock.Lock()
LockDb(t) ==
    /\ pc[t] = "lock"
    /\ canLockDb
    /\ db' = [db EXCEPT !.writer = t]
    /\ pc' = [pc EXCEPT ![t] = "write"]
    /\ ret' = Pending
    /\ UNCHANGED <<cwd, fs, loc>>
    /\ conFrame

\* The read of the map begins.
StartRead(t) ==
    /\ pc[t] = "read"
    /\ db' = [db EXCEPT !.reading = @ \cup {t}]
    /\ pc' = [pc EXCEPT ![t] = "reading"]
    /\ ret' = Pending
    /\ UNCHANGED <<cwd, fs, loc>>
    /\ conFrame

\* What a read of the map that ends now can have found of the name: what
\* the map has, and, with a write of the map going on, also what that
\* write makes of it, or the end of the process.
Seen(t) ==
    {IF loc[t].table \in DOMAIN db.tables THEN "table" ELSE "nil"}
        \cup (IF db.writing \ {t} # {} THEN {"table", "nil", "fatal"} ELSE {})

\* The read of the map ends.  Drop goes on, with no lock held, to
\* Table.Drop of what it found, which panics for nil and else removes the
\* directory of the path of the store, and then to the lock; the other
\* calls go on to release the read lock.
EndRead(t) ==
    /\ pc[t] = "reading"
    /\ \E seen \in Seen(t) :
         /\ loc' = [loc EXCEPT ![t].seen = seen]
         /\ IF seen = "fatal"
            THEN /\ pc' = [u \in Threads |-> "dead"]
                 /\ ret' = DbResult(loc[t].op, loc[t].table, NoData, ErrFatal, NoData, NoData)
                 /\ db' = [db EXCEPT !.reading = @ \ {t}]
                 /\ UNCHANGED fs
            ELSE IF loc[t].op # "Drop"
            THEN /\ pc' = [pc EXCEPT ![t] = "runlock"]
                 /\ ret' = Pending
                 /\ db' = [db EXCEPT !.reading = @ \ {t}]
                 /\ UNCHANGED fs
            ELSE IF seen = "nil"
            THEN /\ pc' = [pc EXCEPT ![t] = "idle"]
                 /\ ret' = DbResult("Drop", loc[t].table, NoData, ErrPanic, NoData, NoData)
                 /\ db' = [db EXCEPT !.reading = @ \ {t}]
                 /\ UNCHANGED fs
            ELSE /\ pc' = [pc EXCEPT ![t] = "lock"]
                 /\ ret' = Pending
                 /\ db' = [db EXCEPT !.reading = @ \ {t}]
                 /\ fs' = IF loc[t].table \in DOMAIN db.tables
                             /\ db.tables[loc[t].table].store.path = ""
                          THEN fs ELSE without(fs, loc[t].table)
    /\ UNCHANGED cwd
    /\ conFrame

\* d.lock.RUnlock() and the return of a call that read.
RUnlockDb(t) ==
    /\ pc[t] = "runlock"
    /\ db' = [db EXCEPT !.readers = @ \ {t}]
    /\ pc' = [pc EXCEPT ![t] = "idle"]
    /\ loc' = [loc EXCEPT ![t] = Idle]
    /\ ret' = IF loc[t].op = "GetTableNames"
              THEN DbResult("GetTableNames", "", NoData, ErrNil, DOMAIN db.tables, NoData)
              ELSE IF loc[t].seen = "nil"
              THEN notFound(loc[t].op, loc[t].table, NoData, NoData)
              ELSE DbResult(loc[t].op, loc[t].table, NoData, ErrNil, NoData, NoData)
    /\ UNCHANGED <<cwd, fs>>
    /\ conFrame

\* The write of the map begins: d.tables[tableName] = table of Create,
\* delete(d.tables, tableName) of Drop.
StartWrite(t) ==
    /\ pc[t] = "write"
    /\ db' = [db EXCEPT !.writing = @ \cup {t}]
    /\ pc' = [pc EXCEPT ![t] = "writing"]
    /\ ret' = Pending
    /\ UNCHANGED <<cwd, fs, loc>>
    /\ conFrame

\* The write of the map ends.
EndWrite(t) ==
    /\ pc[t] = "writing"
    /\ db' = [db EXCEPT !.writing = @ \ {t},
                        !.tables = IF loc[t].op = "Create"
                                   THEN withFile(@, loc[t].table,
                                                 newTable(Nothing, loc[t].table, loc[t].ix,
                                                          ColumnSet).table)
                                   ELSE without(@, loc[t].table)]
    /\ pc' = [pc EXCEPT ![t] = "unlock"]
    /\ ret' = Pending
    /\ UNCHANGED <<cwd, fs, loc>>
    /\ conFrame

\* d.lock.Unlock() and the return of Create or Drop.
UnlockDb(t) ==
    /\ pc[t] = "unlock"
    /\ db' = [db EXCEPT !.writer = 0]
    /\ pc' = [pc EXCEPT ![t] = "idle"]
    /\ loc' = [loc EXCEPT ![t] = Idle]
    /\ ret' = DbResult(loc[t].op, loc[t].table, NoData, ErrNil, NoData, NoData)
    /\ UNCHANGED <<cwd, fs>>
    /\ conFrame

NextDbConc ==
    \E t \in Threads :
        \/ \E n \in DbNames : BeginCreate(t, n, NewProjectionlessIndexer(Width, Height, TRUE))
        \/ \E n \in DbNames : BeginDrop(t, n)
        \/ \E op \in DbReaders : BeginRead(t, op, "hello")
        \/ RLockDb(t)
        \/ LockDb(t)
        \/ StartRead(t)
        \/ EndRead(t)
        \/ RUnlockDb(t)
        \/ StartWrite(t)
        \/ EndWrite(t)
        \/ UnlockDb(t)

SpecDbConc == InitDb /\ [][NextDbConc]_vars

\* C29: a thread reads the map only while it holds the read or the write
\* lock and writes it only while it holds the write lock, so that no two
\* threads are at the map at the same time with one of them writing it.
C29_MapUnderLock ==
    /\ \A t \in db.reading : t \in db.readers \/ db.writer = t
    /\ \A t \in db.writing : db.writer = t
    /\ \A t \in db.writing : (db.reading \cup db.writing) \ {t} = {}

----------------------------------------------------------------------------
(* Creation with and without columns: NewStore, NewTable and               *)
(* Database.Create.                                                        *)

\* NewTable(path, indexer, columns...) on the path of the table of the
\* model: the error of NewStore is returned before anything else is done;
\* else the data file and the .tbl.json file are written over, the
\* .meta.json file is created anew and the Table is a new one.
NewTable(ix, columns) ==
    LET here == [n \in {TableName} |->
                    [storeFile |-> storeFile, disk |-> disk, tblFile |-> tblFile]]
        n == newTable(here, TableName, ix, columns)
    IN  IF n.err # ErrNil
        THEN /\ ret' = TableResult("NewTable", columns, NoPage, n.err, NoData, {}, NoData)
             /\ UNCHANGED <<disk, cache, written, tampered, faults, tblVars, thrVars, crcMemo,
                            dbVars>>
        ELSE /\ store' = n.table.store
             /\ storeFile' = n.files.storeFile
             /\ disk' = n.files.disk
             /\ tblFile' = n.files.tblFile
             /\ cache' = <<>>
             /\ indexer' = ix
             /\ indexerName' = ix.Name
             /\ metadata' = n.table.Metadata
             /\ written' = [i \in 0..(Rows - 1) |-> DefaultRow]
             /\ tampered' = {}
             /\ cells' = [l \in Locations |-> Project(DefaultRow, columnProj)]
             /\ ret' = TableResult("NewTable", columns, NoPage, ErrNil, NoData,
                                   DOMAIN n.files.disk, NoData)
             /\ UNCHANGED <<faults, opens, thrVars, crcMemo, dbVars>>

\* The column lists tables are created with.
CreateColumns == {<<>>, ColumnSet}

\* The schemas and the numbers of rows stores are created with.
CreateSchemas == {<<>>, <<ColA>>}

CreateRows == {0, MaxRows}

NextCreate ==
    \/ \E rows \in CreateRows, columns \in CreateSchemas : NewStore("s1", rows, columns)
    \/ \E ix \in DbIndexers, columns \in CreateColumns : NewTable(ix, columns)
    \/ \E n \in DbNames, columns \in CreateColumns :
           DatabaseCreateColumns(n, Indexer, columns)
    \/ \E n \in DbNames : DatabaseGetColumns(n)

SpecCreate == InitDb /\ [][NextCreate]_vars

\* C31: NewStore with no columns returns ErrZeroColumns and no Store and
\* leaves the directory, the .meta.json file and the data file as they
\* were; NewTable and Database.Create with no columns return the same
\* error, and Create changes neither the directory nor the map.
C31_ZeroColumns ==
    [][/\ \A rows \in CreateRows :
              NewStore("s1", rows, <<>>) =>
                  /\ ret'.err = ErrZeroColumns
                  /\ ret'.val = NoData
                  /\ ret'.wrote = {}
                  /\ UNCHANGED <<store, storeFile, disk, cache, tblFile, cwd, fs, db>>
       /\ \A ix \in DbIndexers :
              NewTable(ix, <<>>) =>
                  /\ ret'.err = ErrZeroColumns
                  /\ ret'.val = NoData
                  /\ UNCHANGED <<store, storeFile, disk, cache, tblFile, metadata, indexer,
                                 cwd, fs, db>>
       /\ \A n \in DbNames :
              DatabaseCreateColumns(n, Indexer, <<>>) =>
                  /\ ret'.err = ErrZeroColumns
                  /\ UNCHANGED <<db, fs, cwd>>]_vars

\* C31: Create with no columns has failed in a Database that has a table
\* of another name, and the name is neither in the map nor in the
\* directory.
C31_Witness ==
    /\ ret.op = "Create"
    /\ ret.err = ErrZeroColumns
    /\ DOMAIN db.tables # {}
    /\ ret.table \notin DOMAIN db.tables
    /\ ret.table \notin DOMAIN fs

----------------------------------------------------------------------------
(* Row addressing of the stores of any schema.                             *)

\* The bytes of its page that GetRowAt and SetRowAt address for a row,
\* counted from 0.
rowBytes(index) == rowOffsetOf(index)..(rowOffsetOf(index) + store.rowSize - 1)

\* C32: with rowsPerPage = PageSize / rowSize for a rowSize of 1..PageSize,
\* every row of the store is on a page the data file has, its bytes are
\* all inside the payload of that page, and no two rows share a byte.
C32_RowAddressing ==
    /\ store.rowSize \in 1..PageSize
    /\ store.rowsPerPage = PageSize \div store.rowSize
    /\ \A i \in 0..(store.Rows - 1) :
          /\ pageIndexOf(i) \in DOMAIN disk
          /\ rowBytes(i) \subseteq 0..(PageSize - 1)
          /\ Cardinality(rowBytes(i)) = store.rowSize
          /\ \A j \in 0..(store.Rows - 1) :
                (j # i /\ pageIndexOf(j) = pageIndexOf(i)) => rowBytes(i) \cap rowBytes(j) = {}

\* C32: GetRowAt has read the last row of a store whose rows do not fill a
\* page and take more than one page.
C32_Witness ==
    /\ ret.op = "GetRowAt" /\ ret.err = ErrNil
    /\ ret.index = store.Rows - 1
    /\ PageSize % store.rowSize # 0
    /\ store.Rows > store.rowsPerPage

----------------------------------------------------------------------------
(* Stores of schemas of any width and of any number of rows.               *)

\* A column of a type that is none of the ColumnType constants.
ColBad == [Name |-> "bad", Type |-> "ColumnType(99)", Default |-> <<>>]

\* Schemas that fit a page, a schema wider than a page, and a schema whose
\* rows have no bytes.
WideSchemas == {<<ColA>>, <<ColA, ColB>>, <<ColB, ColB, ColB>> \o ColumnSet, <<ColBad>>}

\* NewStore takes the number of rows as an int.
WideRows == {0 - 1, 0, MaxRows}

NextWide ==
    \/ \E name \in StoreNames, rows \in WideRows, columns \in WideSchemas :
           NewStore(name, rows, columns)
    \/ ReopenStore
    \/ \E index \in {i \in 0..(MaxRows - 1) : i < store.Rows} : GetRowAt(index)

SpecWide == InitSchema /\ [][NextWide]_vars

\* C33: a Store that NewStore or OpenStore returned has Rows >= 0,
\* rowSize >= 1 and rowsPerPage >= 1, and NewStore returns an error, and
\* does not end in a division by zero, for a schema whose rows are wider
\* than a page or have no bytes.
C33_StoreSizes ==
    /\ (ret.op \in {"NewStore", "OpenStore"} /\ ret.err = ErrNil) =>
           /\ store.Rows >= 0
           /\ store.rowSize >= 1
           /\ store.rowsPerPage >= 1
    /\ ret.op = "NewStore" => ret.err # ErrPanic

----------------------------------------------------------------------------
(* Pagemaster.Initialize over a new file, with writes that fail.           *)

\* writePage at a page the file may not have yet: the file grows by what
\* reached it, a whole record or the checksum and the first bytes of the
\* payload.
writeRecord(d, pageIndex, page, wo) ==
    LET padded == Pad(page)
        checksum == ChecksumIEEE(padded)
        old == IF pageIndex \in DOMAIN d THEN d[pageIndex].data ELSE <<>>
        longer == IF wo.n > Len(old) THEN wo.n ELSE Len(old)
        with(rec) == [q \in DOMAIN d \cup {pageIndex} |-> IF q = pageIndex THEN rec ELSE d[q]]
    IN  CASE wo.at = "crc" -> [disk |-> d, err |-> ErrIO]
          [] wo.at = "data" ->
                [disk |-> with([crc |-> checksum,
                                data |-> [i \in 1..longer |->
                                             IF i <= wo.n THEN padded[i] ELSE old[i]]]),
                 err |-> ErrIO]
          [] OTHER -> [disk |-> with([crc |-> checksum, data |-> padded]), err |-> ErrNil]

\* The loop of Initialize from page i on: the write of page k ends as wo
\* says, the writes before it succeed.
RECURSIVE initPages(_, _, _, _, _, _)
initPages(d, i, n, page, k, wo) ==
    IF i >= n THEN [disk |-> d, err |-> ErrNil]
    ELSE IF i = k THEN writeRecord(d, i, page, wo)
    ELSE initPages(writeRecord(d, i, page, WriteDone).disk, i + 1, n, page, k, wo)

\* The loop of an Initialize that leaves the pages the file has as they are.
RECURSIVE resumePages(_, _, _, _, _, _)
resumePages(d, i, n, page, k, wo) ==
    IF i >= n THEN [disk |-> d, err |-> ErrNil]
    ELSE IF i \in DOMAIN d THEN resumePages(d, i + 1, n, page, k, wo)
    ELSE IF i = k THEN writeRecord(d, i, page, wo)
    ELSE resumePages(writeRecord(d, i, page, WriteDone).disk, i + 1, n, page, k, wo)

\* Initialize that writes only the pages the file does not have.
initializeResume(d, n, page, k, wo) ==
    IF wo.at = "open" THEN [disk |-> d, err |-> ErrIO] ELSE resumePages(d, 0, n, page, k, wo)

\* Pagemaster.Initialize(pages, page) on the file d: os.OpenFile without
\* O_TRUNC, then writePage for page 0, 1, ... until one fails.
initialize(d, n, page, k, wo) ==
    IF wo.at = "open" THEN [disk |-> d, err |-> ErrIO] ELSE initPages(d, 0, n, page, k, wo)

\* The numbers of pages and the templates files are initialized with.
InitPages == 0..(MaxPageArg + 1)

Templates == {<<>>, <<1>>, DefaultRow, defaultPage}

\* NewPagemaster over a newly created empty file that is to be initialized
\* with n pages of the template page.  The failed writes are counted per
\* file.
NewPagemaster(n, page) ==
    /\ disk' = EmptyFile
    /\ cache' = <<>>
    /\ faults' = 0
    /\ ret' = Result("NewPagemaster", n, ErrNil, page, {})
    /\ UNCHANGED <<written, tampered, tblVars, thrVars, crcMemo, dbVars>>

\* Where an Initialize of n pages can fail, and how: at os.OpenFile, or at
\* the write of one of the pages.
InitOutcomes(n, nf) ==
    {o \in [k : 0..n, wo : WriteOutcomes(nf)] :
        /\ o.wo.at = "done" <=> o.k = n
        /\ o.wo.at = "open" => o.k = 0}
        \cup {[k |-> 0, wo |-> f] : f \in {g \in WriteOutcomes(nf) : g.at = "open"}}

\* Initialize(pages, page) with the arguments the Pagemaster was made for:
\* the first call, or a call after the one before returned.
InitializeFile ==
    /\ ret.op \in {"NewPagemaster", "Initialize"}
    /\ \E o \in InitOutcomes(ret.index, faults) :
         LET r == initialize(disk, ret.index, ret.val, o.k, o.wo) IN
         /\ disk' = r.disk
         /\ ret' = Result("Initialize", ret.index, r.err, ret.val, DOMAIN r.disk)
         /\ faults' = faults + Failed(o.wo)
    /\ UNCHANGED <<cache, written, tampered, tblVars, thrVars, crcMemo, dbVars>>

InitInitialize == InitTable(Indexer, {Pad(t) : t \in Templates}, 0)

NextInitialize ==
    \/ \E n \in InitPages, page \in Templates : NewPagemaster(n, page)
    \/ InitializeFile

SpecInitialize == InitInitialize /\ [][NextInitialize]_vars

\* The record of a page filled with a template: the CRC-32 of the template
\* padded with zeros, and the padded template.
recordOfTemplate(page) == [crc |-> crc32(Pad(page)), data |-> Pad(page)]

\* C34: an Initialize that returns without error, be it the first call on
\* the file, a call after calls with the same arguments that failed part
\* way, or a call after one that succeeded, leaves exactly the file one
\* successful call leaves: pages 0 .. pages-1, each the checksum of the
\* padded template and the padded template.
C34_InitializeRetry ==
    [][(ret'.op = "Initialize" /\ ret'.err = ErrNil) =>
           disk' = [p \in 0..(ret'.index - 1) |-> recordOfTemplate(ret'.val)]]_vars

\* C34: Initialize has succeeded on a file that a failed Initialize left
\* with some of its pages.
C34_Witness ==
    /\ ret.op = "Initialize" /\ ret.err = ErrNil
    /\ faults > 0
    /\ ret.index > 1
    /\ Len(ret.val) \in 1..(PageSize - 1)

----------------------------------------------------------------------------
(* Threads that miss the same page at the same time: GetRowAt (GetChunk,   *)
(* GetPage) and SetRowAt (SetChunk) of every thread on the rows of         *)
(* ConcRows, from an empty cache, with no other call in between.           *)

\* The rows of the pages the threads work on.
RaceRows == {i \in 0..(Rows - 1) : i \div rowsPerPage <= MaxConcPage}

NextRace ==
    \/ \E t \in Threads, i \in RaceRows : GetPageFast(t, Call("GetRowAt", i, NoData))
    \/ \E t \in Threads : LoadPageSlow(t)
    \/ \E t \in Threads : Inspect(t)
    \/ \E t \in Threads, i \in RaceRows, row \in ConcVals :
            SetChunkLock(t, Call("SetRowAt", i, row))
    \/ \E t \in Threads : SetChunkCopy(t)
    \/ \E t \in Threads : SetChunkDone(t)

SpecRace == InitReliable /\ [][NextRace]_vars

----------------------------------------------------------------------------
(* The records of the data file under writes that fail.                     *)

\* C36: in every state, a state after a write that failed between the
\* checksum and the payload included, the checksum stored with every page
\* of the file is the CRC-32 of the payload stored with it, so that every
\* page of the file can be read.
C36_RecordsConsistent ==
    \A p \in DOMAIN disk :
        /\ disk[p].crc = crc32(disk[p].data)
        /\ readPage(disk, p).err = ErrNil

----------------------------------------------------------------------------
(* Locations in and out of the range of the grid.                          *)

\* A cell one column beyond the grid, the index after the last row, which
\* is a row of the last page of the data file, and an index below 0.
BesideLocation == [X |-> Width, Y |-> 0]

PaddingLocation == IndexLocation(Rows)

BelowLocation == IndexLocation(0 - 1)

RangeInputs ==
    {Corner, Middle, IndexLocation(0), IndexLocation(Rows - 1), PaddingLocation, BesideLocation,
     FarLocation}

\* The locations rows are set at.
RangeWrites == {Corner, PaddingLocation, BesideLocation}

NextRange ==
    \/ \E l \in RangeInputs \cup {BelowLocation} : CallToIndex(l)
    \/ \E l \in RangeWrites : SetRows(AllColumns, <<l>>)
    \/ \E l \in RangeInputs : GetRows(AllColumns, <<l>>)

SpecRange == InitRows /\ [][NextRange]_vars

\* C37: an index ToIndex returns without error is in 0 .. Size()-1, and
\* GetRows and SetRows that return without error have read and written
\* rows of 0 .. Rows-1 only.
C37_IndexRange ==
    /\ (ret.op = "ToIndex" /\ ret.err = ErrNil) => ret.index \in 0..(Size(indexer) - 1)
    /\ (ret.op \in {"GetRows", "SetRows"} /\ ret.err = ErrNil) =>
           \A i \in DOMAIN ret.index :
               toIndex(indexer, ret.index[i]).index \in 0..(store.Rows - 1)

----------------------------------------------------------------------------
(* The rows handed to the callers, while other calls go on.                *)

\* C38: the bytes of a row GetRowAt has returned to a thread stay as they
\* were when it returned, whatever the other threads do before the thread
\* looks at them: set the row, or drop its page from the cache.
C38_ResultsAreSnapshots ==
    [][\A t \in Threads :
          (pc[t] = "have" /\ loc[t].op = "GetRowAt" /\ pc'[t] = "have") =>
              heldRow(cache', detached', loc'[t]) = heldRow(cache, detached, loc[t])]_vars

----------------------------------------------------------------------------
(* Database.Drop of names that are and that are not tables.                *)

\* C39: Drop of a name that is not in the map returns, an error or nil,
\* and leaves the map and the directory of the Database as they were; Drop
\* of a name that is in the map takes it out of the map.
C39_DropAbsent ==
    [][ret'.op = "Drop" =>
          IF ret'.table \in DOMAIN db.tables
          THEN ret'.table \notin DOMAIN db'.tables
          ELSE /\ ret'.err # ErrPanic
               /\ db'.tables = db.tables
               /\ fs' = fs]_vars

----------------------------------------------------------------------------
(* Calls for pages that cannot be read: pages whose record another program *)
(* changed, and a page beyond the end of the file.                         *)

\* The page whose record is changed.
TamperedPage == MaxPageArg

NextFailedLoad ==
    \/ \E b \in TamperBytes : Tamper(TamperedPage, 1, b)
    \/ \E p \in PageArgs : GetPage(p)
    \/ \E p \in PageArgs : GetChunk(p, 0, rowSize)
    \/ \E p \in PageArgs, page \in PageVals : SetPage(p, page)
    \/ \E p \in PageArgs, chunk \in ChunkVals : SetChunk(p, ChunkOffset, chunk)

SpecFailedLoad == InitReliable /\ [][NextFailedLoad]_vars

\* The calls that get a page, loading it when it is not cached.
GetCalls == {"GetPage", "GetChunk", "SetPage", "SetChunk"}

\* C40: GetPage, GetChunk, SetPage and SetChunk of a page that is not
\* cached and cannot be read from the file return the error of the read
\* and leave the cache as it was, entries, payloads and dirty flags, with
\* no page unloaded and none written to the file.
C40_FailedLoadFrame ==
    [][(/\ ret'.op \in GetCalls
        /\ ret'.index \notin DOMAIN cache
        /\ readPage(disk, ret'.index).err # ErrNil) =>
           /\ ret'.err = readPage(disk, ret'.index).err
           /\ cache' = cache
           /\ disk' = disk
           /\ ret'.wrote = {}]_vars

\* C40: SetChunk of a page whose record was changed has failed with the
\* cache full and a dirty page in it.
C40_Witness ==
    /\ ret.op = "SetChunk"
    /\ ret.err = ErrCorrupted
    /\ cacheFull(cache)
    /\ \E p \in DOMAIN cache : cache[p].dirty

====
